---- MODULE Spec2Model ----
(***************************************************************************)
(* Celebration-Buddy (src/main.py): the multi-user game session framework. *)
(* The per-user session store active_games, the router handle_dm, the four *)
(* games' start and guess handlers, and the asyncio tasks that run them.   *)
(* One action is the code a task runs between two suspension points (an    *)
(* await on Slack or on Gemini); asyncio runs that code without            *)
(* interleaving.                                                           *)
(***************************************************************************)
EXTENDS Integers, Sequences, FiniteSets, TLC

(***************************************************************************)
(* Text.  A text is a sequence of one-character strings.                   *)
(***************************************************************************)
Lower == <<"a","b","c","d","e","f","g","h","i","j","k","l","m",
           "n","o","p","q","r","s","t","u","v","w","x","y","z">>
Upper == <<"A","B","C","D","E","F","G","H","I","J","K","L","M",
           "N","O","P","Q","R","S","T","U","V","W","X","Y","Z">>
Digits == <<"0","1","2","3","4","5","6","7","8","9">>

Range(s) == {s[i] : i \in DOMAIN s}

\* str.upper(), one character
char_upper(c) ==
    IF \E i \in DOMAIN Lower : Lower[i] = c
    THEN Upper[CHOOSE i \in DOMAIN Lower : Lower[i] = c]
    ELSE c

\* str.upper()
upper(text) == [i \in 1..Len(text) |-> char_upper(text[i])]

\* str.lower(), one character
char_lower(c) ==
    IF \E i \in DOMAIN Upper : Upper[i] = c
    THEN Lower[CHOOSE i \in DOMAIN Upper : Upper[i] = c]
    ELSE c

\* str.lower()
lower(text) == [i \in 1..Len(text) |-> char_lower(text[i])]

RECURSIVE lstrip(_)
lstrip(text) ==
    IF Len(text) > 0 /\ text[1] = " " THEN lstrip(Tail(text)) ELSE text

RECURSIVE rstrip(_)
rstrip(text) ==
    IF Len(text) > 0 /\ text[Len(text)] = " "
    THEN rstrip(SubSeq(text, 1, Len(text) - 1))
    ELSE text

\* str.strip()
strip(text) == rstrip(lstrip(text))

\* str.isalpha()
isalpha(text) ==
    /\ Len(text) > 0
    /\ \A i \in 1..Len(text) : text[i] \in Range(Lower) \cup Range(Upper)

\* str.isdigit(), one character
is_digit(c) == c \in Range(Digits)

\* the value of a digit character
digit_value(c) == (CHOOSE i \in DOMAIN Digits : Digits[i] = c) - 1

\* the value of a non-empty string of digits
RECURSIVE digits_value(_)
digits_value(text) ==
    IF Len(text) = 0 THEN 0
    ELSE 10 * digits_value(SubSeq(text, 1, Len(text) - 1))
         + digit_value(text[Len(text)])

\* int(text) succeeds: an optional sign and at least one digit
int_parses(text) ==
    LET body == IF Len(text) > 0 /\ text[1] = "-" THEN Tail(text) ELSE text
    IN  Len(body) > 0 /\ \A i \in 1..Len(body) : is_digit(body[i])

\* int(text), where it succeeds
int_of(text) ==
    IF text[1] = "-" THEN 0 - digits_value(Tail(text)) ELSE digits_value(text)

\* list.index: the first place of x in list, from 0
index_of(list, x) ==
    (CHOOSE i \in DOMAIN list : list[i] = x /\ \A j \in DOMAIN list : list[j] = x => i <= j) - 1

(***************************************************************************)
(* The word files and the texts users send.                                *)
(***************************************************************************)
CRANE == <<"C","R","A","N","E">>
CRATE == <<"C","R","A","T","E">>
ZESTY == <<"Z","E","S","T","Y">>

\* wordle_answers.txt, as load_word_list returns it
WORDLE_ANSWERS == <<CRANE>>

\* valid_guesses.txt, as load_word_list returns it
VALID_GUESSES_FILE == {CRATE}

Users == {"U1", "U2"}

\* how many turns a session is let to take before no more messages are sent to it
MaxTurns == 7
\* how many games are started in a run
MaxStarts == 2
\* how many turns a session is let to take where every user plays every game
MaxMessages == 1

\* the invocations (handlers and starts) that can be in flight at once
Tasks == {1, 2}

\* no entry in active_games
None == 0

VARIABLES
    active_games,     \* user id -> the session object of the user, or None
    heap,             \* the session objects ever created, by identity
    VALID_GUESSES,    \* the in-memory valid-guess set
    gemini_model,     \* whether the Gemini model was configured at import
    birthdays,        \* the birthdays table: user id -> <<month, day>> or <<>>
    tasks,            \* the invocations in flight, each at its suspension point
    valid_guesses_txt, \* the lines appended to valid_guesses.txt since the
                      \* program started, in order
    call,             \* the call of a pure function under study: its arguments
                      \* and, once it has returned, its result
    turns             \* per session, for each accepted turn: the arrival number
                      \* of its message (Wordle); the question index the answer
                      \* was compared against, and whether it was correct
                      \* (Trivia)

vars == <<active_games, heap, VALID_GUESSES, gemini_model, birthdays, tasks,
          call, turns, valid_guesses_txt>>

Reply(kind, arg) == [kind |-> kind, arg |-> arg]
NoReply == Reply("-", 0)

Idle == [fn |-> "-", pc |-> "idle", user |-> "-", guess |-> <<>>,
         game_session |-> None, say |-> NoReply, after |-> "-", n |-> 0,
         target_len |-> 0]

\* no call of a pure function is under study
NoCall == [fn |-> "-", args |-> <<>>, returned |-> FALSE, result |-> <<>>]

InFlight(t) == tasks[t].pc # "idle"

\* the slot a new invocation takes
FreeTask == CHOOSE t \in Tasks : ~InFlight(t) /\ \A o \in Tasks : o < t => InFlight(o)

Init ==
    /\ active_games = [u \in Users |-> None]
    /\ heap = <<>>
    /\ VALID_GUESSES = VALID_GUESSES_FILE \cup Range(WORDLE_ANSWERS)
    /\ gemini_model \in BOOLEAN
    /\ birthdays = [u \in Users |-> <<>>]
    /\ tasks = [t \in Tasks |-> Idle]
    /\ call = NoCall
    /\ turns = <<>>
    /\ valid_guesses_txt = <<>>


(***************************************************************************)
(* Tasks.  A frame is what an invocation keeps across a suspension: the    *)
(* user, the normalised text, the session object it was handed (a          *)
(* reference: it stays the same object when active_games changes) and the  *)
(* arrival number of its message.                                          *)
(***************************************************************************)
Frame(fn, user_id, guess, game_session, n) ==
    [fn |-> fn, user |-> user_id, guess |-> guess, game_session |-> game_session,
     n |-> n, target_len |-> 0]

FrameOf(t) ==
    [fn |-> tasks[t].fn, user |-> tasks[t].user, guess |-> tasks[t].guess,
     game_session |-> tasks[t].game_session, n |-> tasks[t].n,
     target_len |-> tasks[t].target_len]

\* the invocation suspends at pc, awaiting Gemini or Slack's users_info
Suspend(t, f, pc) ==
    tasks' = [tasks EXCEPT ![t] =
                [fn |-> f.fn, pc |-> pc, user |-> f.user, guess |-> f.guess,
                 game_session |-> f.game_session, say |-> NoReply,
                 after |-> "-", n |-> f.n, target_len |-> f.target_len]]

\* await say(...) or await client.chat_postMessage(...): the invocation suspends
\* until Slack answers; `after` is the code that follows the await.  None of
\* that code reads the text or the arrival number again.
await_say(t, f, reply, after) ==
    tasks' = [tasks EXCEPT ![t] =
                [fn |-> f.fn, pc |-> "say", user |-> f.user, guess |-> <<>>,
                 game_session |-> f.game_session, say |-> reply,
                 after |-> after, n |-> 0, target_len |-> 0]]

\* the invocation ends (by return or by an exception that leaves it)
Finish(t) == tasks' = [tasks EXCEPT ![t] = Idle]

(***************************************************************************)
(* Wordle                                                                  *)
(***************************************************************************)
WordleTries == 6

\* a Wordle that reports the guesses left before the turn (not the program's)
handle_wordle_guess_accepted_stale(t, f) ==
    LET game_state == heap[f.game_session].state
        target_word == game_state.word
        guesses == Append(game_state.guesses, f.guess)
    IN  /\ heap' = [heap EXCEPT ![f.game_session].state.guesses = guesses]
        /\ turns' = [turns EXCEPT ![f.game_session] = Append(@, f.n)]
        /\ IF f.guess = target_word
           THEN await_say(t, f, Reply("wordle_win", 0), "del")
           ELSE IF Len(guesses) >= WordleTries
           THEN await_say(t, f, Reply("wordle_loss", 0), "del")
           ELSE await_say(t, f, Reply("wordle_left",
                                      WordleTries - Len(game_state.guesses)),
                          "return")

\* handle_wordle_guess from `game_state = game_session['state']` on: the guess
\* is accepted
handle_wordle_guess_accepted(t, f) ==
    LET game_state == heap[f.game_session].state
        target_word == game_state.word
        guesses == Append(game_state.guesses, f.guess)
    IN  /\ heap' = [heap EXCEPT ![f.game_session].state.guesses = guesses]
        /\ turns' = [turns EXCEPT ![f.game_session] = Append(@, f.n)]
        /\ IF f.guess = target_word
           THEN await_say(t, f, Reply("wordle_win", 0), "del")
           ELSE IF Len(guesses) >= WordleTries
           THEN await_say(t, f, Reply("wordle_loss", 0), "del")
           ELSE await_say(t, f, Reply("wordle_left", WordleTries - Len(guesses)),
                          "return")

\* a Wordle that checks only the length of a guess (not the program's)
handle_wordle_guess_any_chars(t, f) ==
    IF Len(f.guess) # 5
    THEN /\ await_say(t, f, Reply("not_5_letters", 0), "return")
         /\ UNCHANGED <<heap, turns>>
    ELSE IF f.guess \notin VALID_GUESSES
    THEN IF ~gemini_model
         THEN /\ await_say(t, f, Reply("not_in_dictionary", 0), "return")
              /\ UNCHANGED <<heap, turns>>
         ELSE /\ Suspend(t, f, "is_real_word_with_ai")
              /\ UNCHANGED <<heap, turns>>
    ELSE handle_wordle_guess_accepted(t, f)

\* handle_wordle_guess up to its first suspension
handle_wordle_guess(t, f) ==
    IF Len(f.guess) # 5 \/ ~isalpha(f.guess)
    THEN /\ await_say(t, f, Reply("not_5_letters", 0), "return")
         /\ UNCHANGED <<heap, turns>>
    ELSE IF f.guess \notin VALID_GUESSES
    THEN IF ~gemini_model
         THEN \* is_real_word_with_ai returns False without suspending
              /\ await_say(t, f, Reply("not_in_dictionary", 0), "return")
              /\ UNCHANGED <<heap, turns>>
         ELSE /\ Suspend(t, f, "is_real_word_with_ai")
              /\ UNCHANGED <<heap, turns>>
    ELSE handle_wordle_guess_accepted(t, f)

\* a validation that takes every answer but an exception for a yes (not the
\* program's)
is_real_word_with_ai_lenient(t) ==
    /\ tasks[t].pc = "is_real_word_with_ai"
    /\ \E answer \in {"yes", "no", "error"} :
         IF answer = "yes"
         THEN /\ VALID_GUESSES' = VALID_GUESSES \cup {tasks[t].guess}
              /\ valid_guesses_txt' = Append(valid_guesses_txt, lower(tasks[t].guess))
              /\ handle_wordle_guess_accepted(t, FrameOf(t))
         ELSE IF answer = "no"
         THEN /\ handle_wordle_guess_accepted(t, FrameOf(t))
              /\ UNCHANGED <<VALID_GUESSES, valid_guesses_txt>>
         ELSE /\ await_say(t, FrameOf(t), Reply("not_in_dictionary", 0), "return")
              /\ UNCHANGED <<VALID_GUESSES, valid_guesses_txt, heap, turns>>
    /\ UNCHANGED <<active_games, gemini_model, call, birthdays>>

\* a validation that keeps only the word it has validated last (not the
\* program's)
is_real_word_with_ai_forgetful(t) ==
    /\ tasks[t].pc = "is_real_word_with_ai"
    /\ \E answer \in {"yes", "no", "error"} :
         IF answer = "yes"
         THEN /\ VALID_GUESSES' = {tasks[t].guess}
              /\ valid_guesses_txt' = Append(valid_guesses_txt, lower(tasks[t].guess))
              /\ handle_wordle_guess_accepted(t, FrameOf(t))
         ELSE /\ await_say(t, FrameOf(t), Reply("not_in_dictionary", 0), "return")
              /\ UNCHANGED <<VALID_GUESSES, valid_guesses_txt, heap, turns>>
    /\ UNCHANGED <<active_games, gemini_model, call, birthdays>>

\* Gemini answers the validation prompt of is_real_word_with_ai ("yes", anything
\* else, or an exception: a failing append to valid_guesses.txt is one), and
\* handle_wordle_guess goes on to its next suspension
is_real_word_with_ai(t) ==
    /\ tasks[t].pc = "is_real_word_with_ai"
    /\ \E answer \in {"yes", "no", "error"} :
         LET is_valid == (answer = "yes") IN
         IF is_valid
         THEN /\ VALID_GUESSES' = VALID_GUESSES \cup {tasks[t].guess}
              /\ valid_guesses_txt' = Append(valid_guesses_txt, lower(tasks[t].guess))
              /\ handle_wordle_guess_accepted(t, FrameOf(t))
         ELSE /\ await_say(t, FrameOf(t), Reply("not_in_dictionary", 0), "return")
              /\ UNCHANGED <<VALID_GUESSES, valid_guesses_txt, heap, turns>>
    /\ UNCHANGED <<active_games, gemini_model, call, birthdays>>

\* a cell of target_list or guess_list that evaluate_guess has set to None
NoLetter == "None"

\* the first loop of evaluate_guess, over the places i..5: <<results, target_list,
\* guess_list>> with the matching places marked and blanked
RECURSIVE evaluate_guess_exact(_, _, _, _)
evaluate_guess_exact(i, results, target_list, guess_list) ==
    IF i > 5 THEN <<results, target_list, guess_list>>
    ELSE IF guess_list[i] = target_list[i]
    THEN evaluate_guess_exact(i + 1, [results EXCEPT ![i] = "exact"],
                              [target_list EXCEPT ![i] = NoLetter],
                              [guess_list EXCEPT ![i] = NoLetter])
    ELSE evaluate_guess_exact(i + 1, results, target_list, guess_list)

\* the second loop of evaluate_guess, over the places i..5: a letter still in
\* target_list is marked present and its first occurrence there is blanked
RECURSIVE evaluate_guess_present(_, _, _, _)
evaluate_guess_present(i, results, target_list, guess_list) ==
    IF i > 5 THEN results
    ELSE IF guess_list[i] = NoLetter
    THEN evaluate_guess_present(i + 1, results, target_list, guess_list)
    ELSE IF guess_list[i] \in Range(target_list)
    THEN evaluate_guess_present(
             i + 1, [results EXCEPT ![i] = "present"],
             [target_list EXCEPT ![index_of(target_list, guess_list[i]) + 1] = NoLetter],
             guess_list)
    ELSE evaluate_guess_present(i + 1, [results EXCEPT ![i] = "absent"],
                                target_list, guess_list)

\* an evaluation whose second loop does not use up the target letter it matched
\* (not the program's)
RECURSIVE evaluate_guess_present_kept(_, _, _, _)
evaluate_guess_present_kept(i, results, target_list, guess_list) ==
    IF i > 5 THEN results
    ELSE IF guess_list[i] = NoLetter
    THEN evaluate_guess_present_kept(i + 1, results, target_list, guess_list)
    ELSE IF guess_list[i] \in Range(target_list)
    THEN evaluate_guess_present_kept(i + 1, [results EXCEPT ![i] = "present"],
                                     target_list, guess_list)
    ELSE evaluate_guess_present_kept(i + 1, [results EXCEPT ![i] = "absent"],
                                     target_list, guess_list)

evaluate_guess_letters_kept(guess, target) ==
    LET first == evaluate_guess_exact(1, [i \in 1..5 |-> ""], target, guess)
    IN  evaluate_guess_present_kept(1, first[1], first[2], first[3])

\* an evaluation whose first loop stops before the last place (not the
\* program's)
evaluate_guess_short(guess, target) ==
    LET first == evaluate_guess_exact(2, [i \in 1..5 |-> ""], target, guess)
    IN  evaluate_guess_present(1, first[1], first[2], first[3])

\* evaluate_guess(guess, target): the marks of the five places, "exact" for the
\* green square, "present" for the yellow, "absent" for the black
evaluate_guess(guess, target) ==
    LET first == evaluate_guess_exact(1, [i \in 1..5 |-> ""], target, guess)
    IN  evaluate_guess_present(1, first[1], first[2], first[3])

(***************************************************************************)
(* Number Guesser                                                          *)
(***************************************************************************)
\* a Number Guesser that counts the limit one guess late (not the program's)
handle_number_guesser_guess_late(t, f) ==
    IF ~int_parses(f.guess)
    THEN /\ await_say(t, f, Reply("not_a_number", 0), "return")
         /\ UNCHANGED <<heap, turns>>
    ELSE LET guess == int_of(f.guess)
             game_state == heap[f.game_session].state
             guesses == game_state.guesses + 1
             target == game_state.target
         IN  /\ heap' = [heap EXCEPT ![f.game_session].state.guesses = guesses]
             /\ UNCHANGED turns
             /\ IF guess = target
                THEN await_say(t, f, Reply("number_win", guesses), "del")
                ELSE IF guesses > game_state.limit
                THEN await_say(t, f, Reply("number_loss", target), "del")
                ELSE IF guess < target
                THEN await_say(t, f, Reply("too_low", game_state.limit - guesses),
                               "return")
                ELSE await_say(t, f, Reply("too_high", game_state.limit - guesses),
                               "return")

\* a Number Guesser that counts a try for a text that is no number (not the
\* program's)
handle_number_guesser_guess_counted(t, f) ==
    IF ~int_parses(f.guess)
    THEN /\ await_say(t, f, Reply("not_a_number", 0), "return")
         /\ heap' = [heap EXCEPT ![f.game_session].state.guesses = @ + 1]
         /\ UNCHANGED turns
    ELSE LET guess == int_of(f.guess)
             game_state == heap[f.game_session].state
             guesses == game_state.guesses + 1
             target == game_state.target
         IN  /\ heap' = [heap EXCEPT ![f.game_session].state.guesses = guesses]
             /\ UNCHANGED turns
             /\ IF guess = target
                THEN await_say(t, f, Reply("number_win", guesses), "del")
                ELSE IF guesses >= game_state.limit
                THEN await_say(t, f, Reply("number_loss", target), "del")
                ELSE IF guess < target
                THEN await_say(t, f, Reply("too_low", game_state.limit - guesses),
                               "return")
                ELSE await_say(t, f, Reply("too_high", game_state.limit - guesses),
                               "return")

\* a Number Guesser that looks at the limit before it looks at the guess (not
\* the program's)
handle_number_guesser_guess_limit_first(t, f) ==
    IF ~int_parses(f.guess)
    THEN /\ await_say(t, f, Reply("not_a_number", 0), "return")
         /\ UNCHANGED <<heap, turns>>
    ELSE LET guess == int_of(f.guess)
             game_state == heap[f.game_session].state
             guesses == game_state.guesses + 1
             target == game_state.target
         IN  /\ heap' = [heap EXCEPT ![f.game_session].state.guesses = guesses]
             /\ UNCHANGED turns
             /\ IF guesses >= game_state.limit
                THEN await_say(t, f, Reply("number_loss", target), "del")
                ELSE IF guess = target
                THEN await_say(t, f, Reply("number_win", guesses), "del")
                ELSE IF guess < target
                THEN await_say(t, f, Reply("too_low", game_state.limit - guesses),
                               "return")
                ELSE await_say(t, f, Reply("too_high", game_state.limit - guesses),
                               "return")

\* handle_number_guesser_guess for an integer guess: the count after the guess
\* and the reply it is answered with
number_guesser_turn(game_state, guess) ==
    LET guesses == game_state.guesses + 1
        target == game_state.target
    IN  [guesses |-> guesses,
         kind |-> IF guess = target THEN "number_win"
                  ELSE IF guesses >= game_state.limit THEN "number_loss"
                  ELSE IF guess < target THEN "too_low"
                  ELSE "too_high"]

\* handle_number_guesser_guess up to its first suspension
handle_number_guesser_guess(t, f) ==
    IF ~int_parses(f.guess)
    THEN /\ await_say(t, f, Reply("not_a_number", 0), "return")
         /\ UNCHANGED <<heap, turns>>
    ELSE LET guess == int_of(f.guess)
             game_state == heap[f.game_session].state
             guesses == game_state.guesses + 1
             target == game_state.target
         IN  /\ heap' = [heap EXCEPT ![f.game_session].state.guesses = guesses]
             /\ UNCHANGED turns
             /\ IF guess = target
                THEN await_say(t, f, Reply("number_win", guesses), "del")
                ELSE IF guesses >= game_state.limit
                THEN await_say(t, f, Reply("number_loss", target), "del")
                ELSE IF guess < target
                THEN await_say(t, f, Reply("too_low", game_state.limit - guesses),
                               "return")
                ELSE await_say(t, f, Reply("too_high", game_state.limit - guesses),
                               "return")


(***************************************************************************)
(* Trivia                                                                  *)
(***************************************************************************)
TriviaRounds == 5

\* _parse_trivia_guess: <<mode, val>>, val an index or a text
_parse_trivia_guess(text) ==
    LET t == upper(strip(text)) IN
    IF t \in {<<"A">>, <<"B">>, <<"C">>, <<"D">>}
    THEN <<"letter", (CHOOSE i \in 1..4 : <<"A", "B", "C", "D">>[i] = t[1]) - 1>>
    ELSE IF t \in {<<"1">>, <<"2">>, <<"3">>, <<"4">>}
    THEN <<"index", int_of(t) - 1>>
    ELSE <<"text", t>>

\* a search of the options that tells capitals from small letters (not the
\* program's)
option_index_exact_case(options, val) ==
    LET hits == {i \in 1..Len(options) : strip(options[i]) = val}
    IN  IF hits = {} THEN -1
        ELSE (CHOOSE i \in hits : \A j \in hits : i <= j) - 1

\* the loop of handle_trivia_guess over enumerate(q["options"]): the first option
\* whose text is val, or -1 for None
option_index(options, val) ==
    LET hits == {i \in 1..Len(options) : upper(strip(options[i])) = val}
    IN  IF hits = {} THEN -1
        ELSE (CHOOSE i \in hits : \A j \in hits : i <= j) - 1

\* a choice that takes an answer it cannot read for the first option (not the
\* program's)
chosen_index_first(q, guess) ==
    LET parsed == _parse_trivia_guess(guess) IN
    IF parsed[1] \in {"letter", "index"} THEN parsed[2]
    ELSE IF option_index(q.options, parsed[2]) = -1 THEN 0
    ELSE option_index(q.options, parsed[2])

\* chosen_index of handle_trivia_guess, -1 for None
chosen_index(q, guess) ==
    LET parsed == _parse_trivia_guess(guess) IN
    IF parsed[1] \in {"letter", "index"} THEN parsed[2]
    ELSE option_index(q.options, parsed[2])

\* handle_trivia_guess up to its first suspension
handle_trivia_guess(t, f) ==
    LET state == heap[f.game_session].state IN
    IF state.idx >= Len(state.questions)
    THEN \* state["questions"][state["idx"]] raises IndexError
         /\ Finish(t)
         /\ UNCHANGED <<heap, turns>>
    ELSE LET q == state.questions[state.idx + 1]
             chosen == chosen_index(q, f.guess)
         IN  IF chosen = -1 \/ ~(0 <= chosen /\ chosen < 4)
             THEN /\ await_say(t, f, Reply("answer_abcd", 0), "return")
                  /\ UNCHANGED <<heap, turns>>
             ELSE /\ turns' = [turns EXCEPT ![f.game_session] =
                                 Append(@, [idx |-> state.idx,
                                            correct |-> chosen = q.correct_index])]
                  /\ IF chosen = q.correct_index
                     THEN /\ heap' = [heap EXCEPT ![f.game_session].state.score = @ + 1]
                          /\ await_say(t, f, Reply("correct", 0), "advance")
                     ELSE /\ UNCHANGED heap
                          /\ await_say(t, f, Reply("wrong", q.correct_index), "advance")

\* a Trivia that ends one question early (not the program's)
handle_trivia_guess_advance_early(t, f) ==
    LET state == heap[f.game_session].state
        idx == state.idx + 1
    IN  /\ heap' = [heap EXCEPT ![f.game_session].state.idx = idx]
        /\ IF idx >= TriviaRounds - 1
           THEN await_say(t, f, Reply("trivia_complete", state.score), "del")
           ELSE await_say(t, f, Reply("trivia_q", idx + 1), "return")

\* handle_trivia_guess after its first say: from `state["idx"] += 1` to the next
\* suspension
handle_trivia_guess_advance(t, f) ==
    LET state == heap[f.game_session].state
        idx == state.idx + 1
    IN  /\ heap' = [heap EXCEPT ![f.game_session].state.idx = idx]
        /\ IF idx >= TriviaRounds
           THEN await_say(t, f, Reply("trivia_complete", state.score), "del")
           ELSE IF idx >= Len(state.questions)
           THEN Finish(t)     \* state["questions"][state["idx"]] raises IndexError
           ELSE await_say(t, f, Reply("trivia_q", idx + 1), "return")

(***************************************************************************)
(* Hangman                                                                 *)
(***************************************************************************)
HangmanLives == 6

\* a Hangman that does not turn away a letter guessed before (not the
\* program's)
handle_hangman_guess_repeat(t, f) ==
    LET game_state == heap[f.game_session].state
        target == game_state.target
        guess == f.guess
    IN  IF Len(guess) = Len(target) /\ guess = target
        THEN /\ await_say(t, f, Reply("hangman_word", 0), "del")
             /\ UNCHANGED <<heap, turns>>
        ELSE IF Len(guess) # 1 \/ ~isalpha(guess)
        THEN /\ await_say(t, f, Reply("single_letter", 0), "return")
             /\ UNCHANGED <<heap, turns>>
        ELSE LET guessed_letters == game_state.guessed_letters \cup {guess[1]}
                 lives == IF guess[1] \notin Range(target)
                          THEN game_state.lives - 1
                          ELSE game_state.lives
             IN  /\ heap' = [heap EXCEPT
                               ![f.game_session].state.guessed_letters = guessed_letters,
                               ![f.game_session].state.lives = lives]
                 /\ UNCHANGED turns
                 /\ IF \A i \in 1..Len(target) : target[i] \in guessed_letters
                    THEN await_say(t, f, Reply("hangman_win", 0), "del")
                    ELSE IF lives <= 0
                    THEN await_say(t, f, Reply("hangman_loss", 0), "del")
                    ELSE await_say(t, f, Reply("hangman_board", lives), "return")

\* a Hangman in which a wrong guess of the whole word costs a life (not the
\* program's)
handle_hangman_guess_word_costs(t, f) ==
    LET game_state == heap[f.game_session].state
        target == game_state.target
        guess == f.guess
    IN  IF Len(guess) = Len(target) /\ guess = target
        THEN /\ await_say(t, f, Reply("hangman_word", 0), "del")
             /\ UNCHANGED <<heap, turns>>
        ELSE IF Len(guess) # 1 \/ ~isalpha(guess)
        THEN /\ await_say(t, f, Reply("single_letter", 0), "return")
             /\ heap' = [heap EXCEPT ![f.game_session].state.lives =
                                       IF Len(guess) = Len(target) THEN @ - 1 ELSE @]
             /\ UNCHANGED turns
        ELSE IF guess[1] \in game_state.guessed_letters
        THEN /\ await_say(t, f, Reply("already_guessed", 0), "return")
             /\ UNCHANGED <<heap, turns>>
        ELSE LET guessed_letters == game_state.guessed_letters \cup {guess[1]}
                 lives == IF guess[1] \notin Range(target)
                          THEN game_state.lives - 1
                          ELSE game_state.lives
             IN  /\ heap' = [heap EXCEPT
                               ![f.game_session].state.guessed_letters = guessed_letters,
                               ![f.game_session].state.lives = lives]
                 /\ UNCHANGED turns
                 /\ IF \A i \in 1..Len(target) : target[i] \in guessed_letters
                    THEN await_say(t, f, Reply("hangman_win", 0), "del")
                    ELSE IF lives <= 0
                    THEN await_say(t, f, Reply("hangman_loss", 0), "del")
                    ELSE await_say(t, f, Reply("hangman_board", lives), "return")

\* a Hangman that is won by the first letter found in the target (not the
\* program's)
handle_hangman_guess_early_win(t, f) ==
    LET game_state == heap[f.game_session].state
        target == game_state.target
        guess == f.guess
    IN  IF Len(guess) = Len(target) /\ guess = target
        THEN /\ await_say(t, f, Reply("hangman_word", 0), "del")
             /\ UNCHANGED <<heap, turns>>
        ELSE IF Len(guess) # 1 \/ ~isalpha(guess)
        THEN /\ await_say(t, f, Reply("single_letter", 0), "return")
             /\ UNCHANGED <<heap, turns>>
        ELSE IF guess[1] \in game_state.guessed_letters
        THEN /\ await_say(t, f, Reply("already_guessed", 0), "return")
             /\ UNCHANGED <<heap, turns>>
        ELSE LET guessed_letters == game_state.guessed_letters \cup {guess[1]}
                 lives == IF guess[1] \notin Range(target)
                          THEN game_state.lives - 1
                          ELSE game_state.lives
             IN  /\ heap' = [heap EXCEPT
                               ![f.game_session].state.guessed_letters = guessed_letters,
                               ![f.game_session].state.lives = lives]
                 /\ UNCHANGED turns
                 /\ IF guess[1] \in Range(target)
                    THEN await_say(t, f, Reply("hangman_win", 0), "del")
                    ELSE IF lives <= 0
                    THEN await_say(t, f, Reply("hangman_loss", 0), "del")
                    ELSE await_say(t, f, Reply("hangman_board", lives), "return")

\* handle_hangman_guess up to its first suspension
handle_hangman_guess(t, f) ==
    LET game_state == heap[f.game_session].state
        target == game_state.target
        guess == f.guess
    IN  IF Len(guess) = Len(target) /\ guess = target
        THEN /\ await_say(t, f, Reply("hangman_word", 0), "del")
             /\ UNCHANGED <<heap, turns>>
        ELSE IF Len(guess) # 1 \/ ~isalpha(guess)
        THEN /\ await_say(t, f, Reply("single_letter", 0), "return")
             /\ UNCHANGED <<heap, turns>>
        ELSE IF guess[1] \in game_state.guessed_letters
        THEN /\ await_say(t, f, Reply("already_guessed", 0), "return")
             /\ UNCHANGED <<heap, turns>>
        ELSE LET guessed_letters == game_state.guessed_letters \cup {guess[1]}
                 lives == IF guess[1] \notin Range(target)
                          THEN game_state.lives - 1
                          ELSE game_state.lives
             IN  /\ heap' = [heap EXCEPT
                               ![f.game_session].state.guessed_letters = guessed_letters,
                               ![f.game_session].state.lives = lives]
                 /\ UNCHANGED turns
                 /\ IF \A i \in 1..Len(target) : target[i] \in guessed_letters
                    THEN await_say(t, f, Reply("hangman_win", 0), "del")
                    ELSE IF lives <= 0
                    THEN await_say(t, f, Reply("hangman_loss", 0), "del")
                    ELSE await_say(t, f, Reply("hangman_board", lives), "return")

(***************************************************************************)
(* Starting a game.  A new session is a new object; active_games[user_id]  *)
(* is bound to it, whatever it was bound to before.                        *)
(***************************************************************************)
\* a start that leaves a session the user already has in place (not the
\* program's)
put_session_if_absent(user_id, game_state) ==
    /\ heap' = Append(heap, game_state)
    /\ turns' = Append(turns, <<>>)
    /\ active_games' = [active_games EXCEPT ![user_id] =
                          IF @ = None THEN Len(heap) + 1 ELSE @]

\* a start that writes the new game into the session the user has (not the
\* program's)
put_session_in_place(user_id, game_state) ==
    IF active_games[user_id] = None
    THEN /\ heap' = Append(heap, game_state)
         /\ turns' = Append(turns, <<>>)
         /\ active_games' = [active_games EXCEPT ![user_id] = Len(heap) + 1]
    ELSE /\ heap' = [heap EXCEPT ![active_games[user_id]] = game_state]
         /\ turns' = turns
         /\ active_games' = active_games

\* active_games[user_id] = game_state
put_session(user_id, game_state) ==
    /\ heap' = Append(heap, game_state)
    /\ turns' = Append(turns, <<>>)
    /\ active_games' = [active_games EXCEPT ![user_id] = Len(heap) + 1]

\* The generator of the random module.  Its state is one of RngStates; what
\* random.seed makes of a seed and what a draw makes of a state are fixed
\* functions of the module that the model does not know: a twister is one
\* choice of them.
RngStates == 0..2
Days == {1, 2}
Twisters == [seeding : [Days -> RngStates], drawing : [RngStates -> 0..2]]

\* random.seed(a): the state of the generator after it
random_seed(twister, a) == twister.seeding[a]

\* random.choice(seq) in the given state of the generator
random_choice(twister, state, seq) == seq[(twister.drawing[state] % Len(seq)) + 1]

\* a fallback that draws without seeding the generator (not the program's)
get_fallback_word_unseeded(twister, state, today, answers) ==
    random_choice(twister, state, answers)

\* get_fallback_word on the day today, the generator being in the given state
\* when it is called
get_fallback_word_on(twister, state, today, answers) ==
    random_choice(twister, random_seed(twister, today), answers)

\* what a draw makes of the state of the generator: as unknown to the model as
\* the twister
Steppings == [RngStates -> RngStates]

\* the state get_fallback_word leaves the generator of the random module in,
\* having found it in the given state: seeded with today's ordinal and advanced
\* by the draw of random.choice
get_fallback_word_leaves(twister, stepping, state, today) ==
    stepping[random_seed(twister, today)]

\* get_fallback_word: random.choice(WORDLE_ANSWERS), the generator seeded with
\* today's ordinal
get_fallback_word == {WORDLE_ANSWERS[i] : i \in DOMAIN WORDLE_ANSWERS}

\* start_wordle_game from the assignment of word_of_the_day on
start_wordle_game_with(t, f, word_of_the_day) ==
    /\ put_session(f.user, [game_name |-> "wordle",
                            state |-> [word |-> word_of_the_day, guesses |-> <<>>]])
    /\ await_say(t, f, Reply("wordle_rules", 0), "return")

\* start_wordle_game up to its first suspension (get_word_of_the_day returns the
\* fallback at once when Gemini is not configured)
start_wordle_game(t, f) ==
    IF ~gemini_model
    THEN \E word \in get_fallback_word : start_wordle_game_with(t, f, word)
    ELSE /\ Suspend(t, f, "get_word_of_the_day")
         /\ UNCHANGED <<heap, turns, active_games>>

\* a get_word_of_the_day that takes a 5-letter word of Gemini that is not in
\* VALID_GUESSES (not the program's)
get_word_of_the_day_unchecked(t) ==
    /\ tasks[t].pc = "get_word_of_the_day"
    /\ \E word \in {w \in VALID_GUESSES \cup {ZESTY} : Len(w) = 5 /\ isalpha(w)}
                   \cup get_fallback_word :
         start_wordle_game_with(t, FrameOf(t), word)
    /\ UNCHANGED <<VALID_GUESSES, gemini_model, call, valid_guesses_txt, birthdays>>

\* Gemini answers the prompt of get_word_of_the_day: a word that passes the check
\* (5 letters, alphabetic, in VALID_GUESSES), or anything else or an exception,
\* and then the fallback word
get_word_of_the_day(t) ==
    /\ tasks[t].pc = "get_word_of_the_day"
    /\ \E word \in {w \in VALID_GUESSES : Len(w) = 5 /\ isalpha(w)}
                   \cup get_fallback_word :
         start_wordle_game_with(t, FrameOf(t), word)
    /\ UNCHANGED <<VALID_GUESSES, gemini_model, call, valid_guesses_txt, birthdays>>

\* the values of random.randint(1, 100) the model draws
NumberTargets == {1, 50}

NumberLimit == 6

\* start_number_guesser_game up to its suspension
start_number_guesser_game(t, f) ==
    \E target_number \in NumberTargets :
        /\ put_session(f.user, [game_name |-> "number_guesser",
                                state |-> [target |-> target_number, guesses |-> 0,
                                           limit |-> NumberLimit]])
        /\ await_say(t, f, Reply("number_rules", NumberLimit), "return")


\* one item of the trivia source's "results"
TriviaItem(correct_answer, incorrect_answers) ==
    [correct_answer |-> correct_answer, incorrect_answers |-> incorrect_answers]

PARIS == <<"P","a","r","i","s">>
ROME == <<"R","o","m","e">>
OSLO == <<"O","s","l","o">>
BONN == <<"B","o","n","n">>

\* the batches the trivia source returns in the model
TriviaBatches ==
    {[i \in 1..TriviaRounds |-> TriviaItem(PARIS, <<ROME, OSLO, BONN>>)]}

\* the outcomes of random.shuffle the model draws: options[i] is the element that
\* was at place shuffle[i]
Shuffles == {<<4, 1, 2, 3>>}

\* a question that records where the correct answer stood before the shuffle
\* (not the program's)
make_question_index_before(item, shuffle) ==
    LET correct == item.correct_answer
        wrongs == item.incorrect_answers
        unshuffled == wrongs \o <<correct>>
        options == [i \in 1..Len(unshuffled) |-> unshuffled[shuffle[i]]]
    IN  [options |-> options, correct_index |-> Len(unshuffled) - 1]

\* the body of the loop of start_trivia_game over items
make_question(item, shuffle) ==
    LET correct == item.correct_answer
        wrongs == item.incorrect_answers
        unshuffled == wrongs \o <<correct>>
        options == [i \in 1..Len(unshuffled) |-> unshuffled[shuffle[i]]]
    IN  [options |-> options, correct_index |-> index_of(options, correct)]

\* a Trivia start that stores an empty session before it asks the trivia source
\* (not the program's)
start_trivia_game_session_first(t, f) ==
    \E fetched \in BOOLEAN :
        IF fetched
        THEN \E items \in TriviaBatches :
             \E shuffle \in [DOMAIN items -> Shuffles] :
                LET questions == [i \in DOMAIN items |-> make_question(items[i], shuffle[i])]
                IN  /\ put_session(f.user, [game_name |-> "trivia",
                                            state |-> [questions |-> questions,
                                                       idx |-> 0, score |-> 0]])
                    /\ await_say(t, f, Reply("trivia_q", 1), "except")
        ELSE /\ put_session(f.user, [game_name |-> "trivia",
                                     state |-> [questions |-> <<>>,
                                                idx |-> 0, score |-> 0]])
             /\ await_say(t, f, Reply("trivia_apology", 0), "return")

\* start_trivia_game up to its suspension, with the trivia source answering one
\* of batches when it answers; requests.get does not suspend
start_trivia_game_of(t, f, batches) ==
    \E fetched \in BOOLEAN :
        IF fetched
        THEN \E items \in batches :
             \E shuffle \in [DOMAIN items -> Shuffles] :
                LET questions == [i \in DOMAIN items |-> make_question(items[i], shuffle[i])]
                IN  /\ put_session(f.user, [game_name |-> "trivia",
                                            state |-> [questions |-> questions,
                                                       idx |-> 0, score |-> 0]])
                    /\ await_say(t, f, Reply("trivia_q", 1), "except")
        ELSE \* the request failed, or no questions were returned
             /\ await_say(t, f, Reply("trivia_apology", 0), "return")
             /\ UNCHANGED <<heap, turns, active_games>>

\* start_trivia_game with the trivia source answering batches of 5 questions
start_trivia_game(t, f) == start_trivia_game_of(t, f, TriviaBatches)

\* hangman_words.txt, as _load_optional_words returns it
HANGMAN_WORDS_FILE == {}

HANGMAN_WORDS ==
    LET first == {w \in VALID_GUESSES_FILE \cup Range(WORDLE_ANSWERS) :
                    5 <= Len(w) /\ Len(w) <= 8}
        words == first \cup {w \in HANGMAN_WORDS_FILE : 5 <= Len(w) /\ Len(w) <= 8}
    IN  IF words = {} THEN Range(WORDLE_ANSWERS) ELSE words

\* _pick_local_hangman_word: the words it may return, {} for None
_pick_local_hangman_word(target_len) ==
    LET pool == {w \in HANGMAN_WORDS : Len(w) = target_len} IN
    IF pool # {} THEN pool
    ELSE IF target_len = 5 /\ Len(WORDLE_ANSWERS) > 0 THEN Range(WORDLE_ANSWERS)
    ELSE {}

\* get_hangman_word from "Local by exact length" on: the words it may return
get_hangman_word_local(target_len) ==
    LET local == _pick_local_hangman_word(target_len)
        broad_pool == {w \in HANGMAN_WORDS : 5 <= Len(w) /\ Len(w) <= 8}
    IN  IF local # {} THEN local
        ELSE IF broad_pool # {} THEN {upper(w) : w \in broad_pool}
        ELSE {upper(w) : w \in VALID_GUESSES}

\* The same choice for any content of the word files.  files is the record of
\* wordle_answers.txt (a list), valid_guesses.txt and hangman_words.txt (sets),
\* as load_word_list and _load_optional_words return them.
\* VALID_GUESSES as the program starts
VALID_GUESSES_of(files) == files.valid_guesses \cup Range(files.answers)

\* HANGMAN_WORDS as the program starts
HANGMAN_WORDS_of(files) ==
    LET first == {w \in VALID_GUESSES_of(files) : 5 <= Len(w) /\ Len(w) <= 8}
        words == first \cup {w \in files.hangman_words : 5 <= Len(w) /\ Len(w) <= 8}
    IN  IF words = {} THEN Range(files.answers) ELSE words

\* _pick_local_hangman_word: the words it may return, {} for None
_pick_local_hangman_word_of(files, target_len) ==
    LET pool == {w \in HANGMAN_WORDS_of(files) : Len(w) = target_len} IN
    IF pool # {} THEN pool
    ELSE IF target_len = 5 /\ Len(files.answers) > 0 THEN Range(files.answers)
    ELSE {}

\* a choice that takes whatever text Gemini answers (not the program's)
get_hangman_word_of_unchecked(files, target_len, ai) ==
    LET ai_word == upper(strip(ai.text))
        local == _pick_local_hangman_word_of(files, target_len)
        broad_pool == {w \in HANGMAN_WORDS_of(files) : 5 <= Len(w) /\ Len(w) <= 8}
    IN  IF ai.kind = "text"
        THEN {ai_word}
        ELSE IF local # {} THEN local
        ELSE IF broad_pool # {} THEN {upper(w) : w \in broad_pool}
        ELSE IF VALID_GUESSES_of(files) # {}
        THEN {upper(w) : w \in VALID_GUESSES_of(files)}
        ELSE {upper(w) : w \in Range(files.answers)}

\* get_hangman_word: the words it may return when random.randint gives
\* target_len and Gemini is not configured (ai.kind = "-"), raises (ai.kind =
\* "error") or answers ai.text
get_hangman_word_of(files, target_len, ai) ==
    LET ai_word == upper(strip(ai.text))
        local == _pick_local_hangman_word_of(files, target_len)
        broad_pool == {w \in HANGMAN_WORDS_of(files) : 5 <= Len(w) /\ Len(w) <= 8}
    IN  IF ai.kind = "text" /\ isalpha(ai_word) /\ Len(ai_word) = target_len
        THEN {ai_word}
        ELSE IF local # {} THEN local
        ELSE IF broad_pool # {} THEN {upper(w) : w \in broad_pool}
        ELSE IF VALID_GUESSES_of(files) # {}
        THEN {upper(w) : w \in VALID_GUESSES_of(files)}
        ELSE {upper(w) : w \in Range(files.answers)}

\* the texts Gemini answers the Hangman prompt with, as resp.text.strip().upper()
GeminiHangmanWords == {<<"M","A","M","M","A">>, <<"N","O","-","O","P">>}

\* the values of random.randint(5, 8) the model draws
HangmanLengths == {5, 6}

\* start_hangman_game from the assignment of target_word on
start_hangman_game_with(t, f, target_word) ==
    /\ put_session(f.user, [game_name |-> "hangman",
                            state |-> [target |-> target_word, guessed_letters |-> {},
                                       lives |-> HangmanLives]])
    /\ await_say(t, f, Reply("hangman_rules", Len(target_word)), "return")

\* start_hangman_game up to its first suspension (get_hangman_word goes to the
\* local pools at once when Gemini is not configured)
start_hangman_game(t, f) ==
    \E target_len \in HangmanLengths :
        IF ~gemini_model
        THEN \E word \in get_hangman_word_local(target_len) :
                start_hangman_game_with(t, f, word)
        ELSE /\ Suspend(t, [f EXCEPT !.target_len = target_len], "get_hangman_word")
             /\ UNCHANGED <<heap, turns, active_games>>

\* Gemini answers the prompt of get_hangman_word (a text, or an exception)
get_hangman_word(t) ==
    /\ tasks[t].pc = "get_hangman_word"
    /\ LET target_len == tasks[t].target_len
           from_ai == {w \in GeminiHangmanWords : isalpha(w) /\ Len(w) = target_len}
       IN  \E word \in from_ai \cup get_hangman_word_local(target_len) :
              start_hangman_game_with(t, FrameOf(t), word)
    /\ UNCHANGED <<VALID_GUESSES, gemini_model, call, valid_guesses_txt, birthdays>>


(***************************************************************************)
(* The registry and the triggers that start a game                         *)
(***************************************************************************)
GAME_REGISTRY ==
    [wordle |-> [name |-> "Wordle", start |-> "start_wordle_game",
                 handler |-> "handle_wordle_guess"],
     number_guesser |-> [name |-> "Higher or Lower",
                         start |-> "start_number_guesser_game",
                         handler |-> "handle_number_guesser_guess"],
     trivia |-> [name |-> "Trivia", start |-> "start_trivia_game",
                 handler |-> "handle_trivia_guess"],
     hangman |-> [name |-> "Hangman", start |-> "start_hangman_game",
                  handler |-> "handle_hangman_guess"]]

GameKeys == DOMAIN GAME_REGISTRY

\* await start_function(user_id, client), in daily_birthday_check (the game key
\* drawn by random.choice) and in handle_test_game_selection (the key selected)
start_function(user_id, game_key) ==
    LET start == GAME_REGISTRY[game_key].start
        t == FreeTask
        f == Frame(start, user_id, <<>>, None, 0)
    IN  /\ \E s \in Tasks : ~InFlight(s)
        /\ CASE start = "start_wordle_game" -> start_wordle_game(t, f)
             [] start = "start_number_guesser_game" -> start_number_guesser_game(t, f)
             [] start = "start_trivia_game" -> start_trivia_game(t, f)
             [] start = "start_hangman_game" -> start_hangman_game(t, f)
        /\ UNCHANGED <<VALID_GUESSES, gemini_model, call, valid_guesses_txt, birthdays>>

(***************************************************************************)
(* The router                                                              *)
(***************************************************************************)
\* re.fullmatch(r"(\d{2}-\d{2})", text)
birthday_match(text) ==
    /\ Len(text) = 5
    /\ \A i \in {1, 2, 4, 5} : is_digit(text[i])
    /\ text[3] = "-"

\* a router that tests the date pattern before the session (not the program's)
dm_route_birthday_first(user_id, text) ==
    IF birthday_match(text) THEN "birthday"
    ELSE IF active_games[user_id] # None THEN "game"
    ELSE "return"

\* the order of the tests of handle_dm
dm_route(user_id, text) ==
    IF active_games[user_id] # None THEN "game"
    ELSE IF birthday_match(text) THEN "birthday"
    ELSE "return"

\* days of the month in the year 2000
days_in_month(month) ==
    CASE month \in {1, 3, 5, 7, 8, 10, 12} -> 31
      [] month = 2 -> 29
      [] OTHER -> 30

\* datetime.strptime(f"{date_str}-2000", format): <<month, day>>, or <<>> for
\* ValueError
parse_birthday(date_str, date_format) ==
    LET a == digits_value(SubSeq(date_str, 1, 2))
        b == digits_value(SubSeq(date_str, 4, 5))
        day == IF date_format = "DD-MM" THEN a ELSE b
        month == IF date_format = "DD-MM" THEN b ELSE a
    IN  IF 1 <= month /\ month <= 12 /\ 1 <= day /\ day <= days_in_month(month)
        THEN <<month, day>>
        ELSE <<>>

\* the place of a message among the messages handed to its session: after every
\* turn the session has taken and every message to it that is still in flight
arrival_number(game_session) ==
    LET seen == Range(turns[game_session])
                \cup {tasks[t].n : t \in {o \in Tasks : tasks[o].game_session = game_session}}
    IN  IF heap[game_session].game_name # "wordle" THEN 0
        ELSE 1 + (CHOOSE n \in seen \cup {0} : \A m \in seen : m <= n)

\* await handler_function(text.upper(), user_id, game_session, say)
handler_function(handler, t, f) ==
    CASE handler = "handle_wordle_guess" -> handle_wordle_guess(t, f)
      [] handler = "handle_number_guesser_guess" -> handle_number_guesser_guess(t, f)
      [] handler = "handle_trivia_guess" -> handle_trivia_guess(t, f)
      [] handler = "handle_hangman_guess" -> handle_hangman_guess(t, f)

\* a handle_dm that hands the text to the handler as it was typed (not the
\* program's)
handle_dm_as_typed(user_id, message_text) ==
    LET t == FreeTask
        text == strip(message_text)
        route == dm_route(user_id, text)
    IN  /\ \E s \in Tasks : ~InFlight(s)
        /\ UNCHANGED <<active_games, VALID_GUESSES, gemini_model, call, valid_guesses_txt, birthdays>>
        /\ CASE route = "game" ->
                  LET game_session == active_games[user_id]
                      game_key == heap[game_session].game_name
                      handler == GAME_REGISTRY[game_key].handler
                  IN  handler_function(handler, t,
                          Frame(handler, user_id, text, game_session,
                                arrival_number(game_session)))
             [] route = "birthday" ->
                  /\ UNCHANGED <<heap, turns>>
                  /\ IF birthdays[user_id] # <<>>
                     THEN await_say(t, Frame("handle_dm", user_id, text, None, 0),
                                    Reply("already_saved", 0), "return")
                     ELSE Suspend(t, Frame("handle_dm", user_id, text, None, 0),
                                  "get_user_date_format")
             [] OTHER -> UNCHANGED <<heap, turns, tasks>>

\* handle_dm for a direct message, up to its first suspension
handle_dm(user_id, message_text) ==
    LET t == FreeTask
        text == strip(message_text)
        route == dm_route(user_id, text)
    IN  /\ \E s \in Tasks : ~InFlight(s)
        /\ UNCHANGED <<active_games, VALID_GUESSES, gemini_model, call, valid_guesses_txt, birthdays>>
        /\ CASE route = "game" ->
                  LET game_session == active_games[user_id]
                      game_key == heap[game_session].game_name
                      handler == GAME_REGISTRY[game_key].handler
                  IN  handler_function(handler, t,
                          Frame(handler, user_id, upper(text), game_session,
                                arrival_number(game_session)))
             [] route = "birthday" ->
                  /\ UNCHANGED <<heap, turns>>
                  /\ IF birthdays[user_id] # <<>>
                     THEN await_say(t, Frame("handle_dm", user_id, text, None, 0),
                                    Reply("already_saved", 0), "return")
                     ELSE Suspend(t, Frame("handle_dm", user_id, text, None, 0),
                                  "get_user_date_format")
             [] OTHER -> UNCHANGED <<heap, turns, tasks>>

\* Slack answers users_info for get_user_date_format, and handle_dm goes on to
\* its say: the birthday is parsed and inserted
get_user_date_format(t) ==
    /\ tasks[t].pc = "get_user_date_format"
    /\ \E date_format \in {"MM-DD", "DD-MM"} :
         LET parsed_date == parse_birthday(tasks[t].guess, date_format)
             user_id == tasks[t].user
         IN  IF parsed_date = <<>>
             THEN /\ await_say(t, FrameOf(t), Reply("invalid_date", 0), "return")
                  /\ UNCHANGED birthdays
             ELSE IF birthdays[user_id] # <<>>
             THEN \* INSERT fails on the primary key; the exception is logged
                  /\ Finish(t)
                  /\ UNCHANGED birthdays
             ELSE /\ birthdays' = [birthdays EXCEPT ![user_id] = parsed_date]
                  /\ await_say(t, FrameOf(t), Reply("got_it", 0), "return")
    /\ UNCHANGED <<active_games, heap, VALID_GUESSES, gemini_model, call, valid_guesses_txt, turns>>

(***************************************************************************)
(* Slack answers a send                                                    *)
(***************************************************************************)
\* a deletion that clears the whole table (not the program's)
del_active_games_clear(user_id) ==
    active_games' = [u \in Users |-> None]

\* a deletion that is forgotten (not the program's)
del_active_games_skip(user_id) ==
    UNCHANGED active_games

\* del active_games[user_id]; KeyError when the user has no entry
del_active_games(user_id) ==
    IF active_games[user_id] # None
    THEN active_games' = [active_games EXCEPT ![user_id] = None]
    ELSE UNCHANGED active_games

\* the send succeeds and the invocation runs on to its next suspension or its end
say_returns(t) ==
    /\ tasks[t].pc = "say"
    /\ LET after == tasks[t].after IN
       CASE after = "del" ->
              /\ del_active_games(tasks[t].user)
              /\ Finish(t)
              /\ UNCHANGED heap
         [] after = "advance" ->
              /\ handle_trivia_guess_advance(t, FrameOf(t))
              /\ UNCHANGED active_games
         [] OTHER ->
              /\ Finish(t)
              /\ UNCHANGED <<active_games, heap>>
    /\ UNCHANGED <<VALID_GUESSES, gemini_model, call, valid_guesses_txt, birthdays, turns>>

\* the send raises: the exception leaves the handler; in start_trivia_game the
\* except clause sends the apology
say_raises(t) ==
    /\ tasks[t].pc = "say"
    /\ IF tasks[t].after = "except"
       THEN await_say(t, FrameOf(t), Reply("trivia_apology", 0), "return")
       ELSE Finish(t)
    /\ UNCHANGED <<active_games, heap, VALID_GUESSES, gemini_model, call, valid_guesses_txt, birthdays,
                   turns>>

(***************************************************************************)
(* Specifications                                                          *)
(***************************************************************************)
\* the turns the user's session has taken
session_turns(user_id) ==
    LET game_session == active_games[user_id] IN
    IF game_session = None THEN 0
    ELSE LET game == heap[game_session] IN
         CASE game.game_name = "wordle" -> arrival_number(game_session) - 1
           [] game.game_name = "number_guesser" -> game.state.guesses
           [] game.game_name = "trivia" -> Len(turns[game_session])
           [] game.game_name = "hangman" -> Cardinality(game.state.guessed_letters)

\* the games started so far, those still choosing their word included
starts_begun ==
    Len(heap) + Cardinality({t \in Tasks : tasks[t].pc \in {"get_word_of_the_day",
                                                            "get_hangman_word"}})

\* the texts of direct messages
DATE_0512 == <<"0","5","-","1","2">>
crane == <<" ","c","r","a","n","e">>
Texts == {ZESTY, <<"a">>, <<"5","0">>}

\* every user, every game, every interleaving of two invocations, sends that
\* may fail; no text is of the date pattern
Next ==
    \/ \E user_id \in Users, game_key \in GameKeys :
          starts_begun < MaxStarts /\ start_function(user_id, game_key)
    \/ \E user_id \in Users, text \in Texts :
          session_turns(user_id) < MaxMessages /\ handle_dm(user_id, text)
    \/ \E t \in Tasks : get_word_of_the_day(t)
    \/ \E t \in Tasks : get_hangman_word(t)
    \/ \E t \in Tasks : is_real_word_with_ai(t)
    \/ \E t \in Tasks : say_returns(t)
    \/ \E t \in Tasks : say_raises(t)

Spec == Init /\ [][Next]_vars

U1only == {"U1"}

\* one user, every message a text of the date pattern
DATE_3112 == <<"3","1","-","1","2">>
RouterTexts == {DATE_0512, DATE_3112}
RouterNext ==
    \/ \E user_id \in U1only, game_key \in GameKeys :
          starts_begun < MaxStarts /\ start_function(user_id, game_key)
    \/ \E user_id \in U1only, text \in RouterTexts : handle_dm(user_id, text)
    \/ \E t \in Tasks : get_word_of_the_day(t)
    \/ \E t \in Tasks : get_hangman_word(t)
    \/ \E t \in Tasks : get_user_date_format(t)
    \/ \E t \in Tasks : say_returns(t)
    \/ \E t \in Tasks : say_raises(t)
RouterSpec == Init /\ [][RouterNext]_vars

\* evaluate_guess on every pair of words of five letters over three letters, and
\* on the words of the examples
ALLOW == <<"A","L","L","O","W">>
LOLLY == <<"L","O","L","L","Y">>
EvalLetters == {"A", "L", "O"}
EvalWords == [1..5 -> EvalLetters] \cup {ALLOW, LOLLY, CRANE, CRATE}
\* a call of a pure function that has not returned, and the program at rest
\* with one such call drawn from calls
Call(fn, args) == [fn |-> fn, args |-> args, returned |-> FALSE, result |-> <<>>]
InitCalling(calls) ==
    /\ active_games = [u \in Users |-> None]
    /\ heap = <<>>
    /\ VALID_GUESSES = VALID_GUESSES_FILE \cup Range(WORDLE_ANSWERS)
    /\ gemini_model = FALSE
    /\ birthdays = [u \in Users |-> <<>>]
    /\ tasks = [t \in Tasks |-> Idle]
    /\ call \in calls
    /\ turns = <<>>
    /\ valid_guesses_txt = <<>>
EvalInit ==
    InitCalling({Call("evaluate_guess", <<guess, target>>) :
                     guess \in EvalWords, target \in EvalWords})
EvalNext ==
    /\ call.fn = "evaluate_guess"
    /\ ~call.returned
    /\ call' = [call EXCEPT !.returned = TRUE,
                            !.result = evaluate_guess(call.args[1], call.args[2])]
    /\ UNCHANGED <<active_games, heap, VALID_GUESSES, gemini_model, birthdays,
                   tasks, turns, valid_guesses_txt>>
EvalSpec == EvalInit /\ [][EvalNext]_vars

\* chosen_index of handle_trivia_guess on every question of four options drawn
\* from a few texts, among them a digit, a letter and a padded text, and on
\* answers that are letters, digits, option texts in either case, and others
FOUR == <<"4">>
LETTER_A == <<"a">>
PADDED_OSLO == <<" ","O","s","l","o">>
OptionTexts == {FOUR, LETTER_A, ROME, PADDED_OSLO}
AnswerTexts ==
    {FOUR, <<"1">>, <<"5">>, LETTER_A, <<"A">>, <<"D">>, <<"x">>, ROME,
     <<"r","o","m","e">>, <<"R","O","M","E"," ">>, <<"O","S","L","O">>,
     <<"R","O","M">>}
ChoiceInit ==
    InitCalling({Call("chosen_index", <<[options |-> options], guess>>) :
                     options \in [1..4 -> OptionTexts], guess \in AnswerTexts})
ChoiceNext ==
    /\ call.fn = "chosen_index"
    /\ ~call.returned
    /\ call' = [call EXCEPT !.returned = TRUE,
                            !.result = chosen_index(call.args[1], call.args[2])]
    /\ UNCHANGED <<active_games, heap, VALID_GUESSES, gemini_model, birthdays,
                   tasks, turns, valid_guesses_txt>>
ChoiceSpec == ChoiceInit /\ [][ChoiceNext]_vars

\* get_fallback_word called twice on one day with one list of answers, the
\* generator in any two states, for every twister
FallbackAnswers == <<CRANE, CRATE, ZESTY>>
FallbackInit ==
    InitCalling({Call("get_fallback_word", <<twister, today, <<first, second>>>>) :
                     twister \in Twisters, today \in Days,
                     first \in RngStates, second \in RngStates})
FallbackNext ==
    /\ call.fn = "get_fallback_word"
    /\ ~call.returned
    /\ LET twister == call.args[1]
           today == call.args[2]
           states == call.args[3]
       IN  call' = [call EXCEPT
                      !.returned = TRUE,
                      !.result = [i \in 1..2 |->
                                    get_fallback_word_on(twister, states[i], today,
                                                         FallbackAnswers)]]
    /\ UNCHANGED <<active_games, heap, VALID_GUESSES, gemini_model, birthdays,
                   tasks, turns, valid_guesses_txt>>
FallbackSpec == FallbackInit /\ [][FallbackNext]_vars

\* get_fallback_word called on any day with the generator in any state, for
\* every twister, and the draw that follows it (the target of a Number Guesser,
\* the length and the word of a Hangman, the order of Trivia options, the game
\* of a birthday)
ReseedInit ==
    InitCalling({Call("draw_after_fallback", <<twister, stepping, today, state>>) :
                     twister \in Twisters, stepping \in Steppings,
                     today \in Days, state \in RngStates})
ReseedNext ==
    /\ call.fn = "draw_after_fallback"
    /\ ~call.returned
    /\ LET twister == call.args[1]
           stepping == call.args[2]
           today == call.args[3]
           state == call.args[4]
           left == get_fallback_word_leaves(twister, stepping, state, today)
       IN  call' = [call EXCEPT !.returned = TRUE,
                                !.result = [state |-> left,
                                            drawn |-> twister.drawing[left]]]
    /\ UNCHANGED <<active_games, heap, VALID_GUESSES, gemini_model, birthdays,
                   tasks, turns, valid_guesses_txt>>
ReseedSpec == ReseedInit /\ [][ReseedNext]_vars

\* make_question on every item whose four answers are among four texts (equal
\* answers included) and on every outcome of random.shuffle
AnswerPool == {PARIS, ROME, OSLO, BONN}
Permutations4 == {shuffle \in [1..4 -> 1..4] : \A i, j \in 1..4 : shuffle[i] = shuffle[j] => i = j}
ShuffleInit ==
    InitCalling({Call("make_question", <<TriviaItem(correct, wrongs), shuffle>>) :
                     correct \in AnswerPool, wrongs \in [1..3 -> AnswerPool],
                     shuffle \in Permutations4})
ShuffleNext ==
    /\ call.fn = "make_question"
    /\ ~call.returned
    /\ call' = [call EXCEPT !.returned = TRUE,
                            !.result = make_question(call.args[1], call.args[2])]
    /\ UNCHANGED <<active_games, heap, VALID_GUESSES, gemini_model, birthdays,
                   tasks, turns, valid_guesses_txt>>
ShuffleSpec == ShuffleInit /\ [][ShuffleNext]_vars

\* get_hangman_word on word files that hold words of 3, 5, 6 and 9 letters, a
\* non-empty list of answers among them, on every length drawn and on every
\* outcome of Gemini
CAT == <<"C","A","T">>
PLANET == <<"P","L","A","N","E","T">>
CROCODILE == <<"C","R","O","C","O","D","I","L","E">>
FileWords == {CAT, CRANE, PLANET, CROCODILE}
WordFiles ==
    [answers : {<<w>> : w \in FileWords} \cup {<<CAT, w>> : w \in FileWords},
     valid_guesses : SUBSET {CAT, CRATE, CROCODILE},
     hangman_words : SUBSET {CAT, PLANET}]
GeminiAnswers ==
    {[kind |-> "-", text |-> <<>>], [kind |-> "error", text |-> <<>>]}
    \cup {[kind |-> "text", text |-> text] :
             text \in {<<"m","a","m","m","a">>, <<"N","O","-","O","P">>, CAT}}
LengthInit ==
    InitCalling({Call("get_hangman_word", <<files, target_len, ai>>) :
                     files \in WordFiles, target_len \in 5..8, ai \in GeminiAnswers})
LengthNext ==
    /\ call.fn = "get_hangman_word"
    /\ ~call.returned
    /\ call' = [call EXCEPT
                  !.returned = TRUE,
                  !.result = get_hangman_word_of(call.args[1], call.args[2],
                                                 call.args[3])]
    /\ UNCHANGED <<active_games, heap, VALID_GUESSES, gemini_model, birthdays,
                   tasks, turns, valid_guesses_txt>>
LengthSpec == LengthInit /\ [][LengthNext]_vars

\* one user, whose events are handled one at a time, every reply delivered
Quiet == \A t \in Tasks : ~InFlight(t)
SeqTexts == {DATE_0512, crane, CRATE, ZESTY, <<"5","0">>, <<"1">>, <<"7","5">>, <<"a">>,
             <<"d">>, <<"z">>, <<"q">>, <<"x">>, <<"j">>, <<"k">>, <<"v">>,
             <<"m">>, <<"m","a","m","m","a">>}
SeqNext ==
    \/ \E user_id \in U1only, game_key \in GameKeys :
          Quiet /\ starts_begun = 0 /\ start_function(user_id, game_key)
    \/ \E user_id \in U1only, text \in SeqTexts :
          Quiet /\ session_turns(user_id) < MaxTurns /\ handle_dm(user_id, text)
    \/ \E t \in Tasks : get_word_of_the_day(t)
    \/ \E t \in Tasks : get_hangman_word(t)
    \/ \E t \in Tasks : is_real_word_with_ai(t)
    \/ \E t \in Tasks : get_user_date_format(t)
    \/ \E t \in Tasks : say_returns(t)
SeqSpec == Init /\ [][SeqNext]_vars

\* one user, whose events are handled one at a time, with sends that may fail
FailTexts == {crane, ZESTY, <<"5","0">>, <<"1">>, <<"a">>, <<"z">>}
FailNext ==
    \/ \E user_id \in U1only, game_key \in GameKeys :
          Quiet /\ starts_begun = 0 /\ start_function(user_id, game_key)
    \/ \E user_id \in U1only, text \in FailTexts :
          Quiet /\ session_turns(user_id) < MaxTurns /\ handle_dm(user_id, text)
    \/ \E t \in Tasks : get_word_of_the_day(t)
    \/ \E t \in Tasks : get_hangman_word(t)
    \/ \E t \in Tasks : is_real_word_with_ai(t)
    \/ \E t \in Tasks : say_returns(t)
    \/ \E t \in Tasks : say_raises(t)
FailSpec == Init /\ [][FailNext]_vars

\* one user, whose events are handled one at a time; every text comes in two
\* spellings that differ in the case of letters and in the blanks around
MaxCaseTurns == 3
CaseTexts ==
    {crane, <<"C","r","a","n","e"," ">>,
     <<"z","e","s","t","y">>, <<" ","Z","E","S","T","Y"," ">>,
     <<"5","0">>, <<" ","5","0"," ">>,
     <<"a">>, <<"A"," ">>,
     <<"p","a","r","i","s">>, <<" ","P","A","R","I","S">>,
     <<"m">>, <<" ","M">>,
     <<" ","m","a","m","m","a">>, <<"M","a","m","m","a"," ">>}
CaseNext ==
    \/ \E user_id \in U1only, game_key \in GameKeys :
          Quiet /\ starts_begun = 0 /\ start_function(user_id, game_key)
    \/ \E user_id \in U1only, text \in CaseTexts :
          Quiet /\ session_turns(user_id) < MaxCaseTurns /\ handle_dm(user_id, text)
    \/ \E t \in Tasks : get_word_of_the_day(t)
    \/ \E t \in Tasks : get_hangman_word(t)
    \/ \E t \in Tasks : is_real_word_with_ai(t)
    \/ \E t \in Tasks : say_returns(t)
CaseSpec == Init /\ [][CaseNext]_vars

\* one user, whose events are handled one at a time, and a trivia source that
\* answers with 1 to 5 questions
ShortBatches ==
    {[i \in 1..n |-> TriviaItem(PARIS, <<ROME, OSLO, BONN>>)] : n \in 1..TriviaRounds}
BatchTexts == {<<"a">>, <<"p","a","r","i","s">>, <<"x">>}
BatchNext ==
    \/ \E user_id \in U1only :
          /\ Quiet /\ starts_begun = 0
          /\ start_trivia_game_of(FreeTask,
                                  Frame("start_trivia_game", user_id, <<>>, None, 0),
                                  ShortBatches)
          /\ UNCHANGED <<VALID_GUESSES, gemini_model, call, valid_guesses_txt, birthdays>>
    \/ \E user_id \in U1only, text \in BatchTexts :
          Quiet /\ session_turns(user_id) < MaxTurns /\ handle_dm(user_id, text)
    \/ \E t \in Tasks : say_returns(t)
BatchSpec == Init /\ [][BatchNext]_vars

\* a game of Number Guesser for every target random.randint(1, 100) may draw,
\* with a player who always guesses a midpoint of the numbers the replies have
\* left (call.args: the state of the session and the least and the greatest of
\* those numbers)
BisectInit ==
    InitCalling({Call("bisect", <<[target |-> target_number, guesses |-> 0,
                                   limit |-> NumberLimit], 1, 100>>) :
                    target_number \in 1..100})
BisectNext ==
    /\ call.fn = "bisect"
    /\ ~call.returned
    /\ LET game_state == call.args[1]
           lo == call.args[2]
           hi == call.args[3]
       IN  \E guess \in {(lo + hi) \div 2, (lo + hi + 1) \div 2} :
             LET turn == number_guesser_turn(game_state, guess)
                 counted == [game_state EXCEPT !.guesses = turn.guesses]
             IN  call' = IF turn.kind \in {"number_win", "number_loss"}
                         THEN [call EXCEPT !.args = <<counted, lo, hi>>,
                                           !.returned = TRUE,
                                           !.result = <<turn.kind>>]
                         ELSE [call EXCEPT !.args =
                                   <<counted,
                                     IF turn.kind = "too_low" THEN guess + 1 ELSE lo,
                                     IF turn.kind = "too_high" THEN guess - 1 ELSE hi>>]
    /\ UNCHANGED <<active_games, heap, VALID_GUESSES, gemini_model, birthdays,
                   tasks, turns, valid_guesses_txt>>
BisectSpec == BisectInit /\ [][BisectNext]_vars

WordleTexts == {crane, CRATE, ZESTY}
NumberTexts == {<<"5","0">>, <<"1">>, <<"7","5">>, <<"x">>}
TriviaTexts == {<<"a">>, <<"p","a","r","i","s">>, <<"x">>}
HangmanTexts == {<<"z">>,<<"q">>,<<"x">>,<<"j">>,<<"k">>,<<"v">>,<<"w">>,<<"a">>,<<"m">>,<<"m","a","m","m","a">>,<<"z","z">>}
WordleNext ==
    \/ \E user_id \in U1only : starts_begun = 0 /\ start_function(user_id, "wordle")
    \/ \E user_id \in U1only, text \in WordleTexts : session_turns(user_id) < MaxTurns /\ handle_dm(user_id, text)
    \/ \E t \in Tasks : get_word_of_the_day(t)
    \/ \E t \in Tasks : is_real_word_with_ai(t)
    \/ \E t \in Tasks : say_returns(t)
    \/ \E t \in Tasks : say_raises(t)
WordleSpec == Init /\ [][WordleNext]_vars
NumberNext ==
    \/ \E user_id \in U1only : starts_begun = 0 /\ start_function(user_id, "number_guesser")
    \/ \E user_id \in U1only, text \in NumberTexts : session_turns(user_id) < MaxTurns /\ handle_dm(user_id, text)
    \/ \E t \in Tasks : say_returns(t)
    \/ \E t \in Tasks : say_raises(t)
NumberSpec == Init /\ [][NumberNext]_vars
TriviaNext ==
    \/ \E user_id \in U1only : starts_begun = 0 /\ start_function(user_id, "trivia")
    \/ \E user_id \in U1only, text \in TriviaTexts : session_turns(user_id) < MaxTurns /\ handle_dm(user_id, text)
    \/ \E t \in Tasks : say_returns(t)
    \/ \E t \in Tasks : say_raises(t)
TriviaSpec == Init /\ [][TriviaNext]_vars
HangmanNext ==
    \/ \E user_id \in U1only : starts_begun = 0 /\ start_function(user_id, "hangman")
    \/ \E user_id \in U1only, text \in HangmanTexts : session_turns(user_id) < MaxTurns /\ handle_dm(user_id, text)
    \/ \E t \in Tasks : get_hangman_word(t)
    \/ \E t \in Tasks : say_returns(t)
    \/ \E t \in Tasks : say_raises(t)
HangmanSpec == Init /\ [][HangmanNext]_vars

(***************************************************************************)
(* The claims                                                              *)
(***************************************************************************)
StartNames == {GAME_REGISTRY[k].start : k \in GameKeys}
HandlerNames == {GAME_REGISTRY[k].handler : k \in GameKeys}

\* the user an invocation that takes the step runs for
Acts(t) == tasks'[t] # tasks[t]
ActingUser(t) == IF InFlight(t) THEN tasks[t].user ELSE tasks'[t].user

\* an invocation that begins with this step
Begins(t) == ~InFlight(t) /\ tasks'[t].pc # "idle"

\* C1: a direct message that arrives from a user who has a session becomes an
\* invocation of the handler GAME_REGISTRY registers for that session's game, on
\* that session, and never an invocation of the birthday branch; a birthday is
\* written by an invocation of the birthday branch only, so a text of the date
\* pattern that arrives while the session exists records no birthday
C1_SessionIntercepts ==
    [][/\ \A t \in Tasks :
            (/\ Begins(t)
             /\ tasks'[t].fn \notin StartNames
             /\ active_games[tasks'[t].user] # None)
            => LET game_session == active_games[tasks'[t].user] IN
               /\ tasks'[t].fn = GAME_REGISTRY[heap[game_session].game_name].handler
               /\ tasks'[t].game_session = game_session
               /\ birthdays' = birthdays
       /\ \A u \in Users :
            birthdays'[u] # birthdays[u]
            => \E t \in Tasks : /\ tasks[t].fn = "handle_dm"
                                /\ tasks[t].user = u
                                /\ tasks[t].pc = "get_user_date_format"
                                /\ Acts(t)]_vars

\* a text of the date pattern was handed to the handler of the user's session, and
\* the user has no birthday
C1_Witness ==
    \E t \in Tasks :
        /\ tasks[t].fn \in HandlerNames
        /\ tasks[t].pc = "say"
        /\ tasks[t].game_session # None
        /\ active_games[tasks[t].user] = tasks[t].game_session
        /\ tasks[t].fn = GAME_REGISTRY[heap[tasks[t].game_session].game_name].handler
        /\ birthdays[tasks[t].user] = <<>>

\* the state every session of a game type starts in
InitialState(game_state) ==
    LET state == game_state.state IN
    CASE game_state.game_name = "wordle" ->
            state.guesses = <<>> /\ state.word \in VALID_GUESSES
      [] game_state.game_name = "number_guesser" ->
            state.guesses = 0 /\ state.limit = 6 /\ state.target \in 1..100
      [] game_state.game_name = "trivia" ->
            state.idx = 0 /\ state.score = 0 /\ Len(state.questions) = 5
      [] game_state.game_name = "hangman" ->
            state.guessed_letters = {} /\ state.lives = 6

\* C3: the step in which a start of game g for user u stores its session binds u
\* to that one new session, of game type g and in g's initial state, whatever
\* session u had before; the earlier sessions are left as they were, every other
\* binding stays, and the user is sent the rules of g and nothing else
C3_StartStoresInitialSession ==
    [][Len(heap') # Len(heap)
       => \E t \in Tasks :
            LET game_session == Len(heap) + 1
                user_id == tasks'[t].user
            IN  /\ Acts(t)
                /\ tasks'[t].fn \in StartNames
                /\ Len(heap') = game_session
                /\ SubSeq(heap', 1, Len(heap)) = heap
                /\ tasks'[t].fn = GAME_REGISTRY[heap'[game_session].game_name].start
                /\ InitialState(heap'[game_session])
                /\ active_games'[user_id] = game_session
                /\ \A v \in Users \ {user_id} : active_games'[v] = active_games[v]
                /\ tasks'[t].pc = "say"
                /\ tasks'[t].say.kind \in {"wordle_rules", "number_rules", "trivia_q",
                                           "hangman_rules"}]_vars

\* user U1, who had a Hangman session with a letter guessed, is bound to a new
\* Trivia session in its initial state
C3_Witness ==
    /\ Len(heap) = 2
    /\ active_games = [u \in Users |-> IF u = "U1" THEN 2 ELSE None]
    /\ heap[1].game_name = "hangman"
    /\ heap[1].state.guessed_letters = {"A"}
    /\ heap[2].game_name = "trivia"
    /\ InitialState(heap[2])
    /\ \E t \in Tasks : tasks[t].fn = "start_trivia_game" /\ tasks[t].pc = "say"

\* the session a user is bound to, <<>> for none
Entry(u) == IF active_games[u] = None THEN <<>> ELSE <<heap[active_games[u]]>>

\* C4: a step changes the active_games entry of a user (creates it, binds it to
\* another session, changes the session it holds, or deletes it) only if the
\* invocation that takes the step runs for that user
C4_UsersIndependent ==
    [][\A v \in Users :
          (active_games'[v] # active_games[v] \/ Entry(v)' # Entry(v))
          => \E t \in Tasks : Acts(t) /\ ActingUser(t) = v]_vars

\* both users are in a game, each with a message in its handler, and the session
\* of U1 has taken a turn while that of U2 is in its initial state
C4_Witness ==
    /\ active_games["U1"] # None
    /\ active_games["U2"] # None
    /\ ~InitialState(heap[active_games["U1"]])
    /\ InitialState(heap[active_games["U2"]])
    /\ \E t1, t2 \in Tasks :
          /\ tasks[t1].user = "U1" /\ tasks[t1].fn \in HandlerNames
          /\ tasks[t2].user = "U2" /\ tasks[t2].fn \in HandlerNames

\* a session that has reached a terminal outcome, as far as its state records it
\* (a Number Guesser win is recorded by the reply alone)
Terminal(game_state) ==
    LET state == game_state.state IN
    CASE game_state.game_name = "wordle" ->
            \/ Len(state.guesses) >= 6
            \/ \E i \in DOMAIN state.guesses : state.guesses[i] = state.word
      [] game_state.game_name = "number_guesser" -> state.guesses >= state.limit
      [] game_state.game_name = "trivia" -> state.idx >= 5
      [] game_state.game_name = "hangman" ->
            \/ state.lives <= 0
            \/ Range(state.target) \subseteq state.guessed_letters

\* the replies that tell the user of a terminal outcome
TerminalReplies == {"wordle_win", "wordle_loss", "number_win", "number_loss",
                    "trivia_complete", "hangman_word", "hangman_win", "hangman_loss"}

\* C2: with the user's messages handled one at a time and every reply delivered,
\* no user is bound to a session in a terminal state once the handler is done,
\* and when the reply of a terminal outcome has been delivered the user has no
\* entry in active_games, so that the router sends the next message, whatever
\* its text, past the game branch
C2_TerminalDeletes ==
    /\ [](Quiet => \A u \in Users : active_games[u] # None
                                   => ~Terminal(heap[active_games[u]]))
    /\ [][\A t \in Tasks : \A u \in Users :
            (/\ tasks[t].pc = "say"
             /\ tasks[t].say.kind \in TerminalReplies
             /\ tasks[t].user = u
             /\ Acts(t))
            => /\ tasks'[t].pc = "idle"
               /\ active_games'[u] = None
               /\ \A text \in SeqTexts : (dm_route(u, strip(text)) # "game")']_vars

\* a game has ended in a terminal state, its user has no entry, and a later
\* message of that user is with the birthday branch
C2_Witness ==
    /\ Len(heap) = 1
    /\ Terminal(heap[1])
    /\ active_games["U1"] = None
    /\ \E t \in Tasks : /\ tasks[t].fn = "handle_dm"
                        /\ tasks[t].user = "U1"
                        /\ tasks[t].pc = "get_user_date_format"

\* the Trivia sessions and the answers they accepted
TriviaSessions == {s \in DOMAIN heap : heap[s].game_name = "trivia"}
Bound(s) == \E u \in Users : active_games[u] = s
Answered(s) == Len(turns[s])
CorrectAnswers(s) == Cardinality({i \in DOMAIN turns[s] : turns[s][i].correct})

\* C10: with messages handled one at a time, a Trivia session over a batch of 5
\* questions is still its user's session while it has accepted fewer than five
\* answers, is deleted when the fifth has been processed, never accepts a
\* sixth, and its score is the number of correct answers, between 0 and 5
C10_TriviaFiveRounds ==
    \A s \in TriviaSessions :
        /\ Answered(s) <= 5
        /\ Answered(s) < 5 => Bound(s)
        /\ (Quiet /\ Answered(s) = 5) => ~Bound(s)
        /\ heap[s].state.score = CorrectAnswers(s)
        /\ heap[s].state.score \in 0..5

\* a Trivia session was deleted after five accepted answers, three of them correct
C10_Witness ==
    \E s \in TriviaSessions :
        /\ Quiet
        /\ Answered(s) = 5
        /\ ~Bound(s)
        /\ heap[s].state.idx = 5
        /\ heap[s].state.score = 3

WordleSessions == {s \in DOMAIN heap : heap[s].game_name = "wordle"}
NumberSessions == {s \in DOMAIN heap : heap[s].game_name = "number_guesser"}
HangmanSessions == {s \in DOMAIN heap : heap[s].game_name = "hangman"}

\* C5: in every Wordle session the accepted guesses stand in the history in the
\* order in which their messages arrived
C5_WordleArrivalOrder ==
    \A s \in WordleSessions :
        \A i, j \in DOMAIN turns[s] : i < j => turns[s][i] < turns[s][j]

\* C6: in every reachable state the guess history of a Wordle session holds at
\* most 6 guesses
C6_WordleAtMostSix ==
    \A s \in WordleSessions : Len(heap[s].state.guesses) <= 6

\* C7: in every reachable state the guess count of a Number Guesser session is
\* at most its limit
C7_NumberWithinLimit ==
    \A s \in NumberSessions : heap[s].state.guesses <= heap[s].state.limit

\* C8: in every reachable state the lives of a Hangman session are at least 0
\* and at most 6
C8_HangmanLivesInRange ==
    \A s \in HangmanSessions : 0 <= heap[s].state.lives /\ heap[s].state.lives <= 6

\* C9: no two accepted answers of a Trivia session are compared against the same
\* question index, and the score never exceeds 5
C9_TriviaScoredOnce ==
    \A s \in TriviaSessions :
        /\ \A i, j \in DOMAIN turns[s] : i < j => turns[s][i].idx # turns[s][j].idx
        /\ heap[s].state.score <= 5

\* the invocations that hold a session
Holders(s) == {t \in Tasks : tasks[t].game_session = s}

\* C11: with messages handled one at a time, a wrong integer guess that makes
\* the count less than the limit is answered too low or too high and leaves the
\* session its user's; the wrong guess that makes the count equal the limit (the
\* 6th) is answered with the loss, and when that reply is delivered the session is
\* deleted; no guess is counted beyond the limit
C11_NumberLossAtLimit ==
    /\ [](\A s \in NumberSessions :
            /\ heap[s].state.guesses <= heap[s].state.limit
            /\ heap[s].state.limit = 6
            /\ (Quiet /\ Bound(s)) => heap[s].state.guesses < heap[s].state.limit
            /\ \A t \in Holders(s) :
                 /\ tasks[t].say.kind = "number_loss"
                    => heap[s].state.guesses = heap[s].state.limit
                 /\ tasks[t].say.kind \in {"too_low", "too_high"}
                    => heap[s].state.guesses < heap[s].state.limit /\ Bound(s))
    /\ [][\A s \in NumberSessions : \A t \in Tasks :
            /\ (heap'[s] # heap[s])
               => /\ heap'[s].state.guesses = heap[s].state.guesses + 1
                  /\ heap'[s].state.target = heap[s].state.target
                  /\ heap'[s].state.limit = heap[s].state.limit
            /\ (heap'[s] # heap[s] /\ Begins(t))
               => tasks'[t].say.kind \in
                     IF heap'[s].state.guesses = heap[s].state.limit
                     THEN {"number_win", "number_loss"}
                     ELSE {"number_win", "too_low", "too_high"}
            /\ (t \in Holders(s) /\ Acts(t) /\ tasks[t].say.kind = "number_loss")
               => ~Bound(s)'
            /\ (t \in Holders(s) /\ Acts(t)
                /\ tasks[t].say.kind \in {"too_low", "too_high"})
               => Bound(s)']_vars

\* the loss is being announced for a session with target 50 that has counted
\* exactly 6 guesses
C11_Witness ==
    \E s \in NumberSessions : \E t \in Holders(s) :
        /\ heap[s].state.target = 50
        /\ heap[s].state.guesses = 6
        /\ tasks[t].say.kind = "number_loss"
        /\ Bound(s)

\* the letters guessed in a Hangman session that are not in its target
WrongLetters(s) == heap[s].state.guessed_letters \ Range(heap[s].state.target)

\* C12: with messages handled one at a time, the lives of a Hangman session are
\* 6 minus the number of distinct letters guessed that are not in the target: a
\* turn adds one new letter and takes one life if and only if the letter is not
\* in the target, a letter guessed before is turned away with nothing changed,
\* and the loss is announced exactly when the 6th distinct wrong letter is in
\* (lives 0), after which the session is deleted
C12_HangmanLives ==
    /\ [](\A s \in HangmanSessions :
            /\ heap[s].state.lives = 6 - Cardinality(WrongLetters(s))
            /\ heap[s].state.lives >= 0
            /\ (Quiet /\ Bound(s)) => heap[s].state.lives > 0
            /\ \A t \in Holders(s) :
                 /\ tasks[t].say.kind = "hangman_loss"
                    => Cardinality(WrongLetters(s)) = 6
                 /\ tasks[t].say.kind = "hangman_board"
                    => Cardinality(WrongLetters(s)) < 6 /\ Bound(s))
    /\ [][\A s \in HangmanSessions : \A t \in Tasks :
            /\ (heap'[s] # heap[s])
               => \E letter \in Range(Upper) \ heap[s].state.guessed_letters :
                     /\ heap'[s].state.guessed_letters =
                           heap[s].state.guessed_letters \cup {letter}
                     /\ heap'[s].state.target = heap[s].state.target
                     /\ heap'[s].state.lives =
                           IF letter \in Range(heap[s].state.target)
                           THEN heap[s].state.lives
                           ELSE heap[s].state.lives - 1
            /\ (Begins(t) /\ tasks'[t].game_session = s
                /\ tasks'[t].say.kind = "already_guessed")
               => heap' = heap /\ active_games' = active_games
            /\ (t \in Holders(s) /\ Acts(t) /\ tasks[t].say.kind = "hangman_loss")
               => ~Bound(s)']_vars

\* a letter of the target and five letters not in it have been guessed, lives are
\* 1, and a letter guessed before is being turned away
C12_Witness ==
    \E s \in HangmanSessions : \E t \in Holders(s) :
        /\ Cardinality(WrongLetters(s)) = 5
        /\ heap[s].state.guessed_letters \cap Range(heap[s].state.target) # {}
        /\ heap[s].state.lives = 1
        /\ tasks[t].say.kind = "already_guessed"

\* C13: with messages handled one at a time, the turn that accepts a Wordle
\* guess appends it and has exactly one of three outcomes: the guess is the
\* target, the win is announced and the session is then deleted; otherwise it is
\* the 6th accepted guess, the loss is announced and the session is then deleted;
\* otherwise the reply reports 6 minus the number of accepted guesses as left
\* and the session stays
C13_WordleOutcomes ==
    /\ [](\A s \in WordleSessions : Len(heap[s].state.guesses) <= 6)
    /\ [][\A s \in WordleSessions : \A t \in Tasks :
            /\ (heap'[s] # heap[s] /\ Acts(t))
               => LET guesses == heap'[s].state.guesses
                      guess == guesses[Len(guesses)]
                  IN  /\ SubSeq(guesses, 1, Len(guesses) - 1) = heap[s].state.guesses
                      /\ heap'[s].state.word = heap[s].state.word
                      /\ tasks'[t].pc = "say"
                      /\ tasks'[t].game_session = s
                      /\ tasks'[t].say =
                            IF guess = heap[s].state.word
                            THEN Reply("wordle_win", 0)
                            ELSE IF Len(guesses) = 6
                            THEN Reply("wordle_loss", 0)
                            ELSE Reply("wordle_left", 6 - Len(guesses))
            /\ (t \in Holders(s) /\ Acts(t)
                /\ tasks[t].say.kind \in {"wordle_win", "wordle_loss"})
               => ~Bound(s)'
            /\ (t \in Holders(s) /\ Acts(t) /\ tasks[t].say.kind = "wordle_left")
               => Bound(s)' /\ heap'[s] = heap[s]]_vars

\* the fifth accepted guess, none of them the target, is answered with one guess
\* left and the session is still its user's
C13_Witness ==
    \E s \in WordleSessions : \E t \in Holders(s) :
        /\ Len(heap[s].state.guesses) = 5
        /\ tasks[t].say = Reply("wordle_left", 1)
        /\ Bound(s)

(***************************************************************************)
(* evaluate_guess.                                                         *)
(***************************************************************************)
Returned(fn) == call.fn = fn /\ call.returned
Occurrences(word, L) == Cardinality({i \in 1..Len(word) : word[i] = L})
Min(a, b) == IF a <= b THEN a ELSE b
\* the places of the guess that hold letter L and are marked exact or present
Credited(L) ==
    {i \in 1..5 : call.args[1][i] = L /\ call.result[i] \in {"exact", "present"}}

\* C14: evaluate_guess never lets one letter of the target satisfy two letters
\* of the guess: for every guess and target of five letters and every letter L,
\* the places of the guess holding L that are marked exact or present number
\* at most the occurrences of L in the target, and precisely the lesser of its
\* occurrences in the guess and in the target.
C14_LettersCreditedOnce ==
    Returned("evaluate_guess") =>
        \A L \in Range(call.args[1]) \cup Range(call.args[2]) :
            /\ Cardinality(Credited(L)) <= Occurrences(call.args[2], L)
            /\ Cardinality(Credited(L)) =
                   Min(Occurrences(call.args[1], L), Occurrences(call.args[2], L))

\* the guess LOLLY against the target ALLOW has been evaluated: of its three
\* L's only two are credited
C14_Witness ==
    /\ Returned("evaluate_guess")
    /\ call.args = <<LOLLY, ALLOW>>
    /\ Cardinality(Credited("L")) = 2
    /\ Occurrences(LOLLY, "L") = 3

\* C15: evaluate_guess marks place i exact if and only if the guess and the
\* target hold the same letter there, so all five places are exact if and only
\* if the guess is the target; the guess CRATE against the target CRANE gives
\* exact, exact, exact, absent, exact.
C15_ExactPlaces ==
    Returned("evaluate_guess") =>
        /\ Len(call.result) = 5
        /\ \A i \in 1..5 :
              call.result[i] = "exact" <=> call.args[1][i] = call.args[2][i]
        /\ (\A i \in 1..5 : call.result[i] = "exact") <=> call.args[1] = call.args[2]
        /\ call.args = <<CRATE, CRANE>> =>
              call.result = <<"exact", "exact", "exact", "absent", "exact">>

\* CRATE has been evaluated against CRANE
C15_Witness ==
    /\ Returned("evaluate_guess")
    /\ call.args = <<CRATE, CRANE>>
    /\ call.result[4] = "absent"
    /\ call.result[5] = "exact"

(***************************************************************************)
(* Rejected input.                                                         *)
(***************************************************************************)
\* the message text of user_id arrives while this user's session is of game_key
Arrives(user_id, text, game_key) ==
    /\ active_games[user_id] # None
    /\ heap[active_games[user_id]].game_name = game_key
    /\ handle_dm(user_id, text)

\* the invocation t takes the step that follows the delivery of a reply of kind
Delivered(t, kind) == Acts(t) /\ tasks[t].pc = "say" /\ tasks[t].say.kind = kind

\* nothing of the sessions, of their binding to users or of the dictionary
\* changes in the step
SessionsKept ==
    /\ heap' = heap
    /\ active_games' = active_games
    /\ VALID_GUESSES' = VALID_GUESSES
    /\ turns' = turns

\* C16: a Wordle guess that is not exactly 5 alphabetic characters is answered
\* with the corrective prompt and nothing else: the guess history and the
\* session are unchanged, the session stays its user's, the invocation does
\* not go to the word validation, and it ends when the prompt is delivered.
C16_WordleMalformedRejected ==
    [][/\ \A user_id \in Users, text \in SeqTexts :
            LET guess == upper(strip(text)) IN
            (Arrives(user_id, text, "wordle") /\ (Len(guess) # 5 \/ ~isalpha(guess)))
            => /\ SessionsKept
               /\ \E t \in Tasks :
                     /\ Begins(t)
                     /\ tasks'[t].pc = "say"
                     /\ tasks'[t].say = Reply("not_5_letters", 0)
                     /\ tasks'[t].after = "return"
               /\ \A t \in Tasks : tasks'[t].pc # "is_real_word_with_ai"
       /\ \A t \in Tasks :
            Delivered(t, "not_5_letters")
            => SessionsKept /\ ~InFlight(t)']_vars

\* a malformed guess is being answered in a Wordle session that has accepted a
\* guess before and is still its user's
C16_Witness ==
    \E s \in WordleSessions : \E t \in Holders(s) :
        /\ tasks[t].say = Reply("not_5_letters", 0)
        /\ Len(heap[s].state.guesses) >= 1
        /\ Bound(s)

\* the guess is put at the end of the history of session s in the step
Appended(s, guess) ==
    /\ heap'[s].state.guesses = Append(heap[s].state.guesses, guess)
    /\ heap'[s].state.word = heap[s].state.word

\* the invocation t is sent to answer that the word is not in the dictionary
Refused(t) ==
    /\ tasks'[t].pc = "say"
    /\ tasks'[t].say = Reply("not_in_dictionary", 0)
    /\ tasks'[t].after = "return"

\* C17: with messages handled one at a time, a well-formed Wordle guess is put
\* into the history if and only if it is in the dictionary or the word
\* validation answers yes (which puts it into the dictionary): a guess of the
\* dictionary is appended at once; a guess outside it is refused unchanged when
\* no validation is available and is otherwise validated, and the validation
\* ends either with the guess in the dictionary and appended, or with the
\* dictionary, the history and the session unchanged and the guess refused; the
\* delivery of the refusal changes nothing.
C17_WordleAppendedIffValid ==
    [][/\ \A user_id \in Users, text \in SeqTexts :
            LET guess == upper(strip(text))
                s == active_games[user_id]
            IN  (Arrives(user_id, text, "wordle") /\ Len(guess) = 5 /\ isalpha(guess))
                => \E t \in Tasks :
                     /\ Begins(t)
                     /\ tasks'[t].game_session = s
                     /\ IF guess \in VALID_GUESSES
                        THEN Appended(s, guess) /\ active_games' = active_games
                        ELSE /\ SessionsKept
                             /\ IF gemini_model
                                THEN /\ tasks'[t].pc = "is_real_word_with_ai"
                                     /\ tasks'[t].guess = guess
                                ELSE Refused(t)
       /\ \A t \in Tasks :
            (Acts(t) /\ tasks[t].pc = "is_real_word_with_ai")
            => LET s == tasks[t].game_session
                   guess == tasks[t].guess
               IN  /\ active_games' = active_games
                   /\ \/ /\ Appended(s, guess)
                         /\ VALID_GUESSES' = VALID_GUESSES \cup {guess}
                         /\ tasks'[t].say.kind \in
                                {"wordle_win", "wordle_loss", "wordle_left"}
                      \/ /\ SessionsKept
                         /\ Refused(t)
       /\ \A t \in Tasks :
            Delivered(t, "not_in_dictionary")
            => SessionsKept /\ ~InFlight(t)']_vars

\* a session whose history holds a guess that the validation has put into the
\* dictionary, and in which a later guess is being refused
C17_Witness ==
    \E s \in WordleSessions : \E t \in Holders(s) :
        /\ \E i \in DOMAIN heap[s].state.guesses :
              /\ heap[s].state.guesses[i] \notin VALID_GUESSES_FILE \cup Range(WORDLE_ANSWERS)
              /\ heap[s].state.guesses[i] \in VALID_GUESSES
        /\ tasks[t].say = Reply("not_in_dictionary", 0)
        /\ Bound(s)

\* C18: a Number Guesser text that does not parse as an integer is answered
\* with the corrective prompt and nothing else: the count of guesses, the
\* target and the limit are unchanged, the session stays its user's, and the
\* invocation ends when the prompt is delivered.
C18_NumberNonIntegerRejected ==
    [][/\ \A user_id \in Users, text \in SeqTexts :
            (Arrives(user_id, text, "number_guesser") /\ ~int_parses(upper(strip(text))))
            => /\ SessionsKept
               /\ \E t \in Tasks :
                     /\ Begins(t)
                     /\ tasks'[t].game_session = active_games[user_id]
                     /\ tasks'[t].pc = "say"
                     /\ tasks'[t].say = Reply("not_a_number", 0)
                     /\ tasks'[t].after = "return"
       /\ \A t \in Tasks :
            Delivered(t, "not_a_number")
            => SessionsKept /\ ~InFlight(t)']_vars

\* a text that is no number is being answered in a session that has counted a
\* guess and is still its user's
C18_Witness ==
    \E s \in NumberSessions : \E t \in Holders(s) :
        /\ tasks[t].say = Reply("not_a_number", 0)
        /\ heap[s].state.guesses >= 1
        /\ heap[s].state.guesses < heap[s].state.limit
        /\ Bound(s)

(***************************************************************************)
(* The choice of a Trivia answer.                                          *)
(***************************************************************************)
Letters4 == <<"A", "B", "C", "D">>
Digits4 == <<"1", "2", "3", "4">>
\* the answer and the texts of the options as they are compared
Folded(text) == upper(strip(text))
\* the options whose text is the answer
Matching(options, guess) ==
    {i \in 1..Len(options) : Folded(options[i]) = Folded(guess)}
\* the index a letter A-D or a digit 1-4 stands for, -1 for any other answer
Position(guess) ==
    LET t == Folded(guess)
        hits == {i \in 1..4 : t = <<Letters4[i]>> \/ t = <<Digits4[i]>>}
    IN  IF hits = {} THEN -1 ELSE (CHOOSE i \in hits : TRUE) - 1

\* C19 as stated: for any four option texts, an answer that is the text of one
\* of the options (in any case) chooses an option of that text, and a letter
\* A-D or a digit 1-4 chooses the index 0-3.
C19_OptionTextChooses ==
    Returned("chosen_index") =>
        LET options == call.args[1].options
            guess == call.args[2]
        IN  /\ Matching(options, guess) # {} => call.result + 1 \in Matching(options, guess)
            /\ Position(guess) # -1 => call.result = Position(guess)

\* C19, amended: a letter A-D or a digit 1-4 chooses the index 0-3 whatever the
\* texts of the options are, also when the answer is the text of another
\* option; any other answer chooses the first option whose text it is (in any
\* case, blanks around either ignored) and no option when there is none.
C19_PositionBeforeText ==
    Returned("chosen_index") =>
        LET options == call.args[1].options
            guess == call.args[2]
            hits == Matching(options, guess)
        IN  IF Position(guess) # -1 THEN call.result = Position(guess)
            ELSE IF hits = {} THEN call.result = -1
            ELSE /\ call.result + 1 \in hits
                 /\ \A i \in hits : call.result + 1 <= i

\* an answer in capitals that is no letter and no digit has chosen the option
\* of that text, which is not the first of the question
C19_Witness ==
    /\ Returned("chosen_index")
    /\ call.args[2] = <<"R","O","M","E"," ">>
    /\ call.args[1].options[3] = ROME
    /\ call.result = 2

\* C20: a Trivia answer that is neither a letter A-D, nor a digit 1-4, nor the
\* text of one of the current question's options is answered with the
\* corrective prompt and nothing else: the question index and the score are
\* unchanged, the session stays its user's on the same question, and the
\* invocation ends when the prompt is delivered.
C20_TriviaUnreadableRejected ==
    [][/\ \A user_id \in Users, text \in TriviaTexts :
            LET s == active_games[user_id]
                state == heap[s].state
                q == state.questions[state.idx + 1]
                guess == upper(strip(text))
            IN  (/\ Arrives(user_id, text, "trivia")
                 /\ state.idx < Len(state.questions)
                 /\ Position(guess) = -1
                 /\ Matching(q.options, guess) = {})
                => /\ SessionsKept
                   /\ heap'[s].state.idx = state.idx
                   /\ heap'[s].state.score = state.score
                   /\ active_games'[user_id] = s
                   /\ \E t \in Tasks :
                         /\ Begins(t)
                         /\ tasks'[t].game_session = s
                         /\ tasks'[t].pc = "say"
                         /\ tasks'[t].say = Reply("answer_abcd", 0)
                         /\ tasks'[t].after = "return"
       /\ \A t \in Tasks :
            Delivered(t, "answer_abcd")
            => SessionsKept /\ ~InFlight(t)']_vars

\* an answer that cannot be read is being turned away at the second question
\* of a session that is still its user's
C20_Witness ==
    \E s \in TriviaSessions : \E t \in Holders(s) :
        /\ tasks[t].say = Reply("answer_abcd", 0)
        /\ heap[s].state.idx = 1
        /\ Answered(s) = 1
        /\ Bound(s)

(***************************************************************************)
(* Failures of the starts.                                                 *)
(***************************************************************************)
\* C21: a start of Trivia either stores a session of five questions and sends
\* the first, or, the trivia source having failed, sends the apology with
\* active_games and every session exactly as they were: no Trivia session is
\* made and a session the user had stays the user's, unchanged; the delivery
\* of that apology changes nothing either.
C21_TriviaFetchFailure ==
    [][\A t \in Tasks :
          /\ (Begins(t) /\ tasks'[t].fn = "start_trivia_game")
             => \/ /\ tasks'[t].say = Reply("trivia_apology", 0)
                   /\ tasks'[t].after = "return"
                   /\ SessionsKept
                \/ /\ tasks'[t].say = Reply("trivia_q", 1)
                   /\ Len(heap') = Len(heap) + 1
                   /\ heap'[Len(heap')].game_name = "trivia"
                   /\ active_games'[tasks'[t].user] = Len(heap')
          /\ (Delivered(t, "trivia_apology") /\ tasks[t].after = "return")
             => SessionsKept /\ ~InFlight(t)']_vars

\* the apology for a failed fetch is being sent to a user who has a session of
\* another game, with a guess counted
C21_Witness ==
    \E t \in Tasks : \E s \in NumberSessions :
        /\ tasks[t].fn = "start_trivia_game"
        /\ tasks[t].say = Reply("trivia_apology", 0)
        /\ tasks[t].after = "return"
        /\ active_games[tasks[t].user] = s
        /\ heap[s].state.guesses = 1
        /\ TriviaSessions = {}

\* C22: a Hangman guess that is neither the target word nor a single
\* alphabetic character is answered with the prompt for a single letter, and a
\* single letter that is among the guessed letters is answered as guessed
\* already; in both cases lives, guessed letters and target are unchanged and
\* the session stays its user's, and the invocation ends when the reply is
\* delivered.
C22_HangmanRejected ==
    [][/\ \A user_id \in Users, text \in HangmanTexts :
            LET s == active_games[user_id]
                state == heap[s].state
                guess == upper(strip(text))
                kind == IF Len(guess) # 1 \/ ~isalpha(guess) THEN "single_letter"
                        ELSE IF guess[1] \in state.guessed_letters
                        THEN "already_guessed"
                        ELSE "-"
            IN  (Arrives(user_id, text, "hangman") /\ guess # state.target /\ kind # "-")
                => /\ SessionsKept
                   /\ \E t \in Tasks :
                         /\ Begins(t)
                         /\ tasks'[t].game_session = s
                         /\ tasks'[t].pc = "say"
                         /\ tasks'[t].say = Reply(kind, 0)
                         /\ tasks'[t].after = "return"
       /\ \A t \in Tasks :
            (Delivered(t, "single_letter") \/ Delivered(t, "already_guessed"))
            => SessionsKept /\ ~InFlight(t)']_vars

\* a wrong word of the target's length is being turned away in a session that
\* has lost a life and is still its user's
C22_Witness ==
    \E s \in HangmanSessions : \E t \in Holders(s) :
        /\ tasks[t].say = Reply("single_letter", 0)
        /\ Len(heap[s].state.target) = 5
        /\ heap[s].state.lives = 5
        /\ Cardinality(heap[s].state.guessed_letters) = 1
        /\ Bound(s)
        /\ \A v \in Tasks \ {t} : ~InFlight(v)

\* every letter of the target of session s is among the letters
Revealed(target, letters) == \A i \in 1..Len(target) : target[i] \in letters

\* C23: with messages handled one at a time, a Hangman turn announces a win,
\* after which the session is deleted, exactly when the guess is the whole
\* target word or when the guess is a new letter with which every letter of the
\* target is among the guessed letters; a session is deleted only after a win
\* or the loss; and while a session is its user's between turns, some letter of
\* the target is unguessed and the lives are above 0.
C23_HangmanWin ==
    /\ [](\A s \in HangmanSessions :
            /\ (Quiet /\ Bound(s))
               => /\ ~Revealed(heap[s].state.target, heap[s].state.guessed_letters)
                  /\ heap[s].state.lives > 0
            /\ \A t \in Holders(s) :
                 tasks[t].say.kind = "hangman_win"
                 => Revealed(heap[s].state.target, heap[s].state.guessed_letters))
    /\ [][/\ \A user_id \in Users, text \in SeqTexts :
               LET s == active_games[user_id]
                   state == heap[s].state
                   guess == upper(strip(text))
                   new_letter == /\ Len(guess) = 1
                                 /\ isalpha(guess)
                                 /\ guess[1] \notin state.guessed_letters
               IN  Arrives(user_id, text, "hangman")
                   => \E t \in Tasks :
                        /\ Begins(t)
                        /\ tasks'[t].game_session = s
                        /\ tasks'[t].say.kind = "hangman_word" <=> guess = state.target
                        /\ tasks'[t].say.kind = "hangman_win"
                           <=> /\ guess # state.target
                               /\ new_letter
                               /\ Revealed(state.target,
                                           state.guessed_letters \cup {guess[1]})
                        /\ tasks'[t].say.kind \in {"hangman_word", "hangman_win"}
                           => tasks'[t].after = "del"
          /\ \A s \in HangmanSessions :
               /\ \A t \in Holders(s) :
                    (Acts(t) /\ tasks[t].say.kind \in {"hangman_word", "hangman_win"})
                    => ~Bound(s)'
               /\ (Bound(s) /\ ~Bound(s)')
                  => \E t \in Holders(s) :
                        /\ Acts(t)
                        /\ tasks[t].say.kind \in
                              {"hangman_word", "hangman_win", "hangman_loss"}]_vars

\* a session was won letter by letter with a life lost on the way, and is
\* deleted
C23_Witness ==
    \E s \in HangmanSessions :
        /\ Quiet
        /\ ~Bound(s)
        /\ Revealed(heap[s].state.target, heap[s].state.guessed_letters)
        /\ heap[s].state.lives = 5

(***************************************************************************)
(* Sends that fail.                                                        *)
(***************************************************************************)
\* C24: with messages handled one at a time and sends that may fail, a session
\* that is its user's between turns is never left with a turn half applied: a
\* Trivia session has advanced its index once for every answer it has scored
\* or marked wrong, and a Wordle, Number Guesser or Hangman session has not
\* counted a terminal guess (the 6th Wordle guess or the target, the guess that
\* reaches the limit, the last life or the last letter).
C24_NoHalfAppliedTurn ==
    Quiet =>
        \A s \in DOMAIN heap :
            Bound(s) =>
                LET state == heap[s].state IN
                CASE heap[s].game_name = "trivia" -> state.idx = Answered(s)
                  [] heap[s].game_name = "wordle" ->
                        /\ Len(state.guesses) < 6
                        /\ state.word \notin Range(state.guesses)
                  [] heap[s].game_name = "number_guesser" -> state.guesses < state.limit
                  [] heap[s].game_name = "hangman" ->
                        /\ state.lives > 0
                        /\ ~Revealed(state.target, state.guessed_letters)

(***************************************************************************)
(* Interleavings.                                                          *)
(***************************************************************************)
\* C25: whenever an invocation of a handler goes on from a delivered terminal
\* reply to `del active_games[user_id]`, the user has an entry in active_games,
\* so that the deletion does not raise, under every interleaving of the user's
\* messages.
C25_DeleteFindsSession ==
    [][\A t \in Tasks :
          (say_returns(t) /\ tasks[t].after = "del")
          => active_games[tasks[t].user] # None]_vars

(***************************************************************************)
(* The dictionary.                                                         *)
(***************************************************************************)
\* the invocations that are waiting for the validation of word
Validating(word) ==
    {t \in Tasks : tasks[t].pc = "is_real_word_with_ai" /\ tasks[t].guess = word}

\* C26: the valid-guess set only grows, and only by the word a validation has
\* just accepted: no step removes a word, a step that adds one is the return of
\* is_real_word_with_ai for that word, after which the word is a member, and
\* the return of a validation of a word that is a member already (validated
\* meanwhile by another invocation) leaves the set as it was.
C26_DictionaryGrowthIdempotent ==
    [][/\ VALID_GUESSES \subseteq VALID_GUESSES'
       /\ VALID_GUESSES' # VALID_GUESSES
          => \E t \in Tasks :
                /\ Acts(t)
                /\ t \in Validating(tasks[t].guess)
                /\ VALID_GUESSES' = VALID_GUESSES \cup {tasks[t].guess}
       /\ \A t \in Tasks :
            (Acts(t) /\ t \in Validating(tasks[t].guess)
             /\ tasks[t].guess \in VALID_GUESSES)
            => VALID_GUESSES' = VALID_GUESSES]_vars

\* a word that an invocation is still validating has been validated and added
\* meanwhile by another, and stands in a history
C26_Witness ==
    \E t \in Tasks :
        /\ t \in Validating(ZESTY)
        /\ ZESTY \in VALID_GUESSES
        /\ \E s \in WordleSessions : ZESTY \in Range(heap[s].state.guesses)

\* C29: valid_guesses.txt gets at most one appended line per validated word:
\* no two of the lines appended since the program started are the same word,
\* also when two guesses of one new word are validated at the same time.
C29_OneLinePerWord ==
    \A i, j \in DOMAIN valid_guesses_txt :
        i # j => valid_guesses_txt[i] # valid_guesses_txt[j]

(***************************************************************************)
(* The fallback word.                                                      *)
(***************************************************************************)
\* C27: two calls of get_fallback_word on the same day with the same list of
\* answers return the same word of the list, whatever state the generator was
\* in before each of them (whatever was drawn before), so all users who get the
\* fallback on one day get one target.
C27_FallbackReproducible ==
    Returned("get_fallback_word") =>
        /\ call.result[1] = call.result[2]
        /\ call.result[1] \in Range(FallbackAnswers)

\* the two calls found the generator in states from which a draw would have
\* chosen different words
C27_Witness ==
    /\ Returned("get_fallback_word")
    /\ LET twister == call.args[1]
           states == call.args[3]
       IN  random_choice(twister, states[1], FallbackAnswers)
               # random_choice(twister, states[2], FallbackAnswers)

(***************************************************************************)
(* Letter case and blanks.                                                 *)
(***************************************************************************)
\* the pairs of spellings of one message
CasePairs ==
    {spellings \in CaseTexts \X CaseTexts :
        /\ spellings[1] # spellings[2]
        /\ upper(strip(spellings[1])) = upper(strip(spellings[2]))}

\* C28: for a user who has a session, of any of the four games, a message and
\* the same message in another letter case or with other blanks around it have
\* the same effect: every step that the one can take from a state, to a state
\* with its sessions and the reply being sent, the other can take too.
C28_CaseAndBlanksIgnored ==
    [][\A user_id \in Users, spellings \in CasePairs :
          (/\ active_games[user_id] # None
           /\ handle_dm(user_id, spellings[1]))
          => handle_dm(user_id, spellings[2])]_vars

\* a Wordle has been won with its first guess, which was not typed as the
\* target is stored (no text of CaseTexts is)
C28_Witness ==
    \E s \in WordleSessions : \E t \in Holders(s) :
        /\ heap[s].state.guesses = <<heap[s].state.word>>
        /\ heap[s].state.word \notin CaseTexts
        /\ tasks[t].say.kind = "wordle_win"

(***************************************************************************)
(* Waiting for the trivia source.                                          *)
(***************************************************************************)
\* C30: a start of Trivia waits for the trivia source at a suspension point, at
\* which the events of other users can be processed: the step with which the
\* start begins leaves it waiting, with no session stored and no message being
\* sent yet.
C30_TriviaFetchSuspends ==
    [][\A t \in Tasks :
          (Begins(t) /\ tasks'[t].fn = "start_trivia_game")
          => /\ tasks'[t].say = NoReply
             /\ SessionsKept]_vars

(***************************************************************************)
(* The stored Trivia questions.                                            *)
(***************************************************************************)
\* C31: for every item and every outcome of the shuffle, the options of the
\* stored question are the three incorrect answers and the correct answer in
\* some order (each text as often as among those four), and the recorded
\* correct index is one of 0..3 and points at an option equal to the correct
\* answer.
C31_OptionsPermuted ==
    Returned("make_question") =>
        LET item == call.args[1]
            q == call.result
            answers == item.incorrect_answers \o <<item.correct_answer>>
        IN  /\ Len(q.options) = 4
            /\ \A text \in Range(answers) \cup Range(q.options) :
                  Occurrences(q.options, text) = Occurrences(answers, text)
            /\ q.correct_index \in 0..3
            /\ q.options[q.correct_index + 1] = item.correct_answer

\* a question whose shuffle has moved the correct answer, among four different
\* answers, from the last place to the second
C31_Witness ==
    /\ Returned("make_question")
    /\ Cardinality(Range(call.result.options)) = 4
    /\ call.result.correct_index = 1
    /\ call.args[2][2] = 4

Extends(later, earlier) ==
    /\ Len(later) >= Len(earlier)
    /\ SubSeq(later, 1, Len(earlier)) = earlier

C34_DeleteOwnSessionOnly ==
    [][\A t \in Tasks :
          (/\ Acts(t)
           /\ tasks[t].pc = "say"
           /\ tasks[t].after = "del"
           /\ active_games[tasks[t].user] # None
           /\ active_games[tasks[t].user] # tasks[t].game_session)
          => active_games'[tasks[t].user] = active_games[tasks[t].user]]_vars

\* C35: whenever start_trivia_game sends the apology "Couldn't start trivia
\* right now", the user it was started for has no Trivia session in
\* active_games, also when what failed is the send of the first question
C35_ApologyLeavesNoSession ==
    \A t \in Tasks :
        (/\ tasks[t].fn = "start_trivia_game"
         /\ tasks[t].pc = "say"
         /\ tasks[t].say.kind = "trivia_apology")
        => \/ active_games[tasks[t].user] = None
           \/ heap[active_games[tasks[t].user]].game_name # "trivia"

\* C36: with messages handled one at a time, a correct guess on the last try
\* allowed is a win: the 6th guess of a Wordle session that is its target word,
\* and the guess of a Number Guesser session that is its target and makes the
\* count equal the limit, are answered with the win and never with the loss,
\* and when the win is delivered the session is deleted
C36_LastTryWins ==
    [][/\ \A user_id \in Users, text \in SeqTexts :
            LET s == active_games[user_id] IN
            /\ (/\ Arrives(user_id, text, "wordle")
                /\ Len(heap[s].state.guesses) = WordleTries - 1
                /\ Folded(text) = heap[s].state.word)
               => /\ heap'[s].state.guesses = Append(heap[s].state.guesses, Folded(text))
                  /\ \E t \in Tasks :
                        /\ Begins(t)
                        /\ tasks'[t].game_session = s
                        /\ tasks'[t].pc = "say"
                        /\ tasks'[t].say.kind = "wordle_win"
                        /\ tasks'[t].after = "del"
            /\ (/\ Arrives(user_id, text, "number_guesser")
                /\ int_parses(Folded(text))
                /\ int_of(Folded(text)) = heap[s].state.target
                /\ heap[s].state.guesses + 1 = heap[s].state.limit)
               => /\ heap'[s].state.guesses = heap[s].state.limit
                  /\ \E t \in Tasks :
                        /\ Begins(t)
                        /\ tasks'[t].game_session = s
                        /\ tasks'[t].pc = "say"
                        /\ tasks'[t].say = Reply("number_win", heap[s].state.limit)
                        /\ tasks'[t].after = "del"
       /\ \A t \in Tasks :
            (Delivered(t, "wordle_win") \/ Delivered(t, "number_win"))
            => /\ active_games'[tasks[t].user] = None
               /\ ~InFlight(t)']_vars

\* the win of a Number Guesser session is being announced for its 6th guess
C36_Witness ==
    \E s \in NumberSessions : \E t \in Holders(s) :
        /\ heap[s].state.guesses = heap[s].state.limit
        /\ tasks[t].say = Reply("number_win", NumberLimit)
        /\ Bound(s)

\* the win of a Wordle session is being announced for its 6th guess
C36_WordleOnLastTry ==
    \E s \in WordleSessions : \E t \in Holders(s) :
        /\ Len(heap[s].state.guesses) = WordleTries
        /\ heap[s].state.guesses[WordleTries] = heap[s].state.word
        /\ tasks[t].say.kind = "wordle_win"

\* C37: with messages handled one at a time, for every batch of 1 to 5
\* questions the trivia source answers with, the index of a Trivia session that
\* is its user's and waits for a message is below the number of its questions
\* (the session has ended when its last question has been answered)
C37_IndexWithinBatch ==
    \A s \in TriviaSessions :
        (Quiet /\ Bound(s)) => heap[s].state.idx < Len(heap[s].state.questions)

\* C38: the target word of every Wordle session, chosen by Gemini or by the
\* fallback, is in VALID_GUESSES in every state, and a guess that is the target
\* word is appended and answered with the win at once: it is neither refused
\* as not in the dictionary nor sent to the word validation
C38_TargetInDictionary ==
    /\ [](\A s \in WordleSessions : heap[s].state.word \in VALID_GUESSES)
    /\ [][\A user_id \in Users, text \in WordleTexts :
            LET s == active_games[user_id] IN
            (Arrives(user_id, text, "wordle") /\ Folded(text) = heap[s].state.word)
            => /\ heap'[s].state.guesses = Append(heap[s].state.guesses, Folded(text))
               /\ VALID_GUESSES' = VALID_GUESSES
               /\ \E t \in Tasks :
                     /\ Begins(t)
                     /\ tasks'[t].game_session = s
                     /\ tasks'[t].pc = "say"
                     /\ tasks'[t].say.kind = "wordle_win"
                     /\ tasks'[t].after = "del"]_vars

\* the win is being announced in a session whose target, CRATE, is a word
\* Gemini has chosen, after a guess that was not the target
C38_Witness ==
    \E s \in WordleSessions : \E t \in Holders(s) :
        /\ gemini_model
        /\ heap[s].state.word = CRATE
        /\ heap[s].state.guesses = <<CRANE, CRATE>>
        /\ tasks[t].say.kind = "wordle_win"

\* C39: for every target from 1 to 100, the game of a player who always guesses
\* a midpoint of the numbers the replies have left ends with the win, within
\* the limit of 6 tries
C39_BisectionWins ==
    Returned("bisect") =>
        /\ call.result = <<"number_win">>
        /\ call.args[1].guesses <= NumberLimit

\* C40: get_fallback_word leaves the generator of the random module as it found
\* it, so that the value drawn after a fallback is the value that would have
\* been drawn without it, and not a function of the date alone
C40_FallbackKeepsGenerator ==
    Returned("draw_after_fallback") =>
        /\ call.result.state = call.args[4]
        /\ call.result.drawn = call.args[1].drawing[call.args[4]]

====
